---- MODULE Spec2Model ----
(***************************************************************************)
(* Gnosis subtitle pipeline: the chunker (SubtitleService.split_subtitles) *)
(* and the coalescer (SubtitleService.coalesce_subtitles) as state         *)
(* machines, one action per branch of a loop iteration; the format guard   *)
(* (SubtitleWorkflow.is_valid_srt_format) as one call; the driver          *)
(* (SubtitleWorkflow.arun with _process_chunk) as a state machine with one *)
(* action per step between two awaits or yields, alone and with a time     *)
(* limit passing beside it; SubtitleService.merge_subtitles as one call;   *)
(* coalesce_subtitles applied to its own result.                           *)
(*                                                                         *)
(* Text is a sequence of atoms.  An atom is a one-character string, or one *)
(* of the tokens the SRT grammar and the two patterns of workflow.py read  *)
(* as a unit: a time stamp ("00:00:01,000"), the arrow, the line end, the  *)
(* fence of a code block and its tag.  The full-width characters of the    *)
(* source are written by their code points: "u3002" is the ideographic     *)
(* full stop, "uFF1F" the full-width question mark, "uFF01" the full-width *)
(* exclamation mark and "uFF0C" the full-width comma.                      *)
(***************************************************************************)
EXTENDS Integers, Sequences, FiniteSets, TLC

(* ------------------------------ bounds --------------------------------- *)
\* longest cue list given to split_subtitles
MaxLen == 4
\* largest token cost of one serialised cue
MaxTok == 3
\* largest max_tokens given to split_subtitles
MaxBudget == 2
\* longest cue list given to coalesce_subtitles
MaxCues == 3
\* latest time stamp of a cue given to coalesce_subtitles; max_dur ranges over
\* 1..MaxTime
MaxTime == 2
\* largest max_pause given to coalesce_subtitles
MaxPause == 1
\* largest number of pieces of a text given to is_valid_srt_format
MaxPieces == 3
\* largest number of cues of the file given to arun
MaxFileCues == 2

VARIABLES
    subtitles,      \* split_subtitles: the argument `subtitles`
    max_tokens,     \* split_subtitles: the argument `max_tokens`
    i,              \* split_subtitles: position of the `for sub in subtitles` loop
    chunks,         \* split_subtitles: the list `chunks` (values of the list objects it holds)
    current_chunk,  \* split_subtitles: value of the list object `current_chunk` refers to
    pending_subs,   \* split_subtitles: value of the list `pending_subs`
    alias,          \* positions of `chunks` that hold the very list object `current_chunk` refers to
    tags,           \* history: for each position of `chunks`, the branch that produced its content
    cur_tag,        \* history: the branch that last wrote `current_chunk`
    pc,             \* split_subtitles: "loop" | "done" ("idle": not called)
    co_subtitles,        \* coalesce_subtitles: the argument `subtitles`
    max_pause,           \* coalesce_subtitles: the argument `max_pause`
    punct_end,           \* coalesce_subtitles: the argument `punct_end`
    max_dur,             \* coalesce_subtitles: the argument `max_dur`
    sorted_subtitles,    \* coalesce_subtitles: the local `sorted_subtitles`
    j,                   \* coalesce_subtitles: position of the loop over sorted_subtitles[1:]
    current_subtitle,    \* coalesce_subtitles: the local `current_subtitle`
    coalesced_subtitles, \* coalesce_subtitles: the local `coalesced_subtitles`
    co_pc,               \* coalesce_subtitles: "start" | "loop" | "done" ("idle": not called)
    g_content,           \* is_valid_srt_format: the argument `content`
    g_result,            \* is_valid_srt_format: what the call returned
    g_pc,                \* is_valid_srt_format: "call" | "returned" | "raised" ("idle": not called)
    srt_file,            \* arun: the file at input_path
    wf_max_tokens,       \* SubtitleWorkflow.max_tokens
    wf_subtitles,        \* arun: the local `subtitles`
    wf_chunks,           \* arun: the local `chunks`
    wf_i,                \* arun: the loop variable `i`
    chunk_srt,           \* arun: the local `chunk_srt`, the argument of _process_chunk
    segmented,           \* _process_chunk: segmented.content as the Segmenter returned it
    segmented_content,   \* _process_chunk: `segmented_content` when the Proofreader is called
    proofread,           \* _process_chunk: proofread.content as the Proofreader returned it
    proofread_content,   \* _process_chunk: `proofread_content` when the Translator is called
    translated,          \* _process_chunk: translated.content as the Translator returned it
    translated_content,  \* _process_chunk: `translated_content` when it returns
    processed_subtitles, \* arun: the local `processed_subtitles`
    events,              \* history: the responses arun has yielded
    output_file,         \* the text saved at output_path
    written,             \* history: the file at output_path was saved
    wf_error,            \* the exception that left arun ("none": none)
    wf_pc,               \* arun: where it stands ("idle": not called)
    calls,               \* history: the agent calls _process_chunk has made, with the chunk number
    wf_timeout,          \* history: the chunk during whose _process_chunk the time limit passed (0: none)
    subtitle_blocks,     \* merge_subtitles: the argument `subtitle_blocks`
    all_subtitles,       \* merge_subtitles: the list it returns
    m_pc,                \* merge_subtitles: "call" | "returned" ("idle": not called)
    tw_subtitles,        \* coalesce_subtitles called twice: the argument `subtitles` of the first call
    tw_max_pause,        \* coalesce_subtitles called twice: `max_pause` of both calls
    tw_punct_end,        \* coalesce_subtitles called twice: `punct_end` of both calls
    tw_max_dur,          \* coalesce_subtitles called twice: `max_dur` of both calls
    tw_once,             \* coalesce_subtitles called twice: what the first call returned
    tw_twice,            \* coalesce_subtitles called twice: what the second call returned
    tw_pc                \* coalesce_subtitles called twice: "first" | "second" | "returned" ("idle")

splitVars == <<subtitles, max_tokens, i, chunks, current_chunk, pending_subs,
               alias, tags, cur_tag, pc>>

coalesceVars == <<co_subtitles, max_pause, punct_end, max_dur, sorted_subtitles,
                  j, current_subtitle, coalesced_subtitles, co_pc>>

guardVars == <<g_content, g_result, g_pc>>

workflowVars == <<srt_file, wf_max_tokens, wf_subtitles, wf_chunks, wf_i,
                  chunk_srt, segmented, segmented_content, proofread,
                  proofread_content, translated, translated_content,
                  processed_subtitles, events, output_file, written,
                  wf_error, wf_pc, calls, wf_timeout>>

mergeVars == <<subtitle_blocks, all_subtitles, m_pc>>

twiceVars == <<tw_subtitles, tw_max_pause, tw_punct_end, tw_max_dur,
               tw_once, tw_twice, tw_pc>>

vars == <<subtitles, max_tokens, i, chunks, current_chunk, pending_subs,
          alias, tags, cur_tag, pc,
          co_subtitles, max_pause, punct_end, max_dur, sorted_subtitles,
          j, current_subtitle, coalesced_subtitles, co_pc,
          g_content, g_result, g_pc,
          srt_file, wf_max_tokens, wf_subtitles, wf_chunks, wf_i,
          chunk_srt, segmented, segmented_content, proofread,
          proofread_content, translated, translated_content,
          processed_subtitles, events, output_file, written,
          wf_error, wf_pc, calls, wf_timeout,
          subtitle_blocks, all_subtitles, m_pc,
          tw_subtitles, tw_max_pause, tw_punct_end, tw_max_dur,
          tw_once, tw_twice, tw_pc>>

\* the value of a local that has not been assigned
Unset == <<>>

\* coalesce_subtitles has not been called
CoalesceIdle ==
    /\ co_subtitles = <<>>
    /\ max_pause = 0
    /\ punct_end = <<>>
    /\ max_dur = 0
    /\ sorted_subtitles = Unset
    /\ j = 0
    /\ current_subtitle = Unset
    /\ coalesced_subtitles = Unset
    /\ co_pc = "idle"

\* split_subtitles has not been called
SplitIdle ==
    /\ subtitles = <<>>
    /\ max_tokens = 0
    /\ i = 0
    /\ chunks = <<>>
    /\ current_chunk = <<>>
    /\ pending_subs = <<>>
    /\ alias = {}
    /\ tags = <<>>
    /\ cur_tag = "none"
    /\ pc = "idle"

\* is_valid_srt_format has not been called on its own
GuardIdle ==
    /\ g_content = <<>>
    /\ g_result = Unset
    /\ g_pc = "idle"

\* arun has not been called
WorkflowIdle ==
    /\ srt_file = [exists |-> FALSE, text |-> <<>>]
    /\ wf_max_tokens = 0
    /\ wf_subtitles = Unset
    /\ wf_chunks = Unset
    /\ wf_i = 0
    /\ chunk_srt = Unset
    /\ segmented = Unset
    /\ segmented_content = Unset
    /\ proofread = Unset
    /\ proofread_content = Unset
    /\ translated = Unset
    /\ translated_content = Unset
    /\ processed_subtitles = Unset
    /\ events = <<>>
    /\ output_file = Unset
    /\ written = FALSE
    /\ wf_error = "none"
    /\ wf_pc = "idle"
    /\ calls = <<>>
    /\ wf_timeout = 0

\* merge_subtitles has not been called
MergeIdle ==
    /\ subtitle_blocks = <<>>
    /\ all_subtitles = Unset
    /\ m_pc = "idle"

\* coalesce_subtitles has not been called twice in a row
TwiceIdle ==
    /\ tw_subtitles = <<>>
    /\ tw_max_pause = 0
    /\ tw_punct_end = <<>>
    /\ tw_max_dur = 0
    /\ tw_once = Unset
    /\ tw_twice = Unset
    /\ tw_pc = "idle"

(* ------------------------------- text ---------------------------------- *)
\* str.strip() removes these from both ends
Whitespace == {" ", "\n", "\t"}

RECURSIVE lstrip(_)
lstrip(s) ==
    IF s # <<>> /\ Head(s) \in Whitespace THEN lstrip(Tail(s)) ELSE s

RECURSIVE rstrip(_)
rstrip(s) ==
    IF s # <<>> /\ s[Len(s)] \in Whitespace
    THEN rstrip(SubSeq(s, 1, Len(s) - 1))
    ELSE s

strip(s) == rstrip(lstrip(s))

(* --------------------------- token counting ---------------------------- *)
\* Subtitle.to_srt(): the serialised block of one cue.  The block is kept as
\* the sequence of tokens the tokenizer yields for it (sub.tok of them); a
\* block ends in a blank line, where the tokenizer always splits, so the
\* tokens of joined blocks are the concatenation of the blocks' tokens.
to_srt(sub) == [k \in 1..sub.tok |-> sub.index]

\* "".join(s.to_srt() for s in subs)
RECURSIVE join_srt(_)
join_srt(subs) ==
    IF subs = <<>> THEN <<>> ELSE to_srt(Head(subs)) \o join_srt(Tail(subs))

\* _count_tokens(text) == len(self._tokenizer.encode(text))
count_tokens(text) == Len(text)

\* mutant: the coalescer's punct_end, commas included, taken for the set
is_sentence_ender_with_commas(char) ==
    char \in {",", "uFF0C", ".", "?", "!", "u3002", "uFF1F", "uFF01"}

\* _is_sentence_ender(char)
is_sentence_ender(char) == char \in {".", "?", "!", "u3002", "uFF1F", "uFF01"}

\* lines 231-234: content = sub.content.strip(); is_sentence_end = ...
is_sentence_end(sub) ==
    LET content == strip(sub.content)
    IN  IF content # <<>> THEN is_sentence_ender(content[Len(content)]) ELSE FALSE

(* ------------------------- the chunker's lists ------------------------- *)
\* The list objects of split_subtitles as one record: `chunks` holds
\* references, so a list appended to it and mutated afterwards changes in
\* `chunks` too.  h.alias is the set of positions of h.chunks that hold the
\* object h.current_chunk refers to.
Heap == [chunks |-> chunks, tags |-> tags, current_chunk |-> current_chunk,
         alias |-> alias, cur_tag |-> cur_tag]

\* chunks.append(current_chunk): the object itself is appended
append_current(h, tag) ==
    [h EXCEPT !.chunks = Append(h.chunks, h.current_chunk),
              !.tags   = Append(h.tags, tag),
              !.alias  = h.alias \cup {Len(h.chunks) + 1}]

\* chunks.append(lst) for a list that current_chunk does not refer to
append_list(h, lst, tag) ==
    [h EXCEPT !.chunks = Append(h.chunks, lst),
              !.tags   = Append(h.tags, tag)]

\* current_chunk = <a list that is not in chunks>
rebind_current(h, lst, tag) ==
    [h EXCEPT !.current_chunk = lst, !.alias = {}, !.cur_tag = tag]

\* current_chunk.extend(subs) / current_chunk.append(sub): in place, so every
\* position of chunks that holds the object sees the new cues
extend_current(h, subs, tag) ==
    LET new == h.current_chunk \o subs
    IN  [h EXCEPT !.current_chunk = new,
                  !.cur_tag = tag,
                  !.chunks = [k \in DOMAIN h.chunks |->
                                 IF k \in h.alias THEN new ELSE h.chunks[k]],
                  !.tags   = [k \in DOMAIN h.tags |->
                                 IF k \in h.alias THEN tag ELSE h.tags[k]]]

\* lines 269-284: the loop over pending_subs of the over-budget branch
RECURSIVE degenerate_split(_, _, _)
degenerate_split(ps, h, budget) ==
    IF ps = <<>> THEN h
    ELSE LET p_sub    == Head(ps)
             p_tokens == count_tokens(to_srt(p_sub))
             h2 == IF /\ h.current_chunk # <<>>
                      /\ count_tokens(join_srt(h.current_chunk)) + p_tokens > budget
                   THEN rebind_current(append_current(h, "degenerate"),
                                       <<p_sub>>, "degenerate")
                   ELSE extend_current(h, <<p_sub>>, "degenerate")
         IN  degenerate_split(Tail(ps), h2, budget)

SetHeap(h) ==
    /\ chunks' = h.chunks
    /\ tags' = h.tags
    /\ current_chunk' = h.current_chunk
    /\ alias' = h.alias
    /\ cur_tag' = h.cur_tag

\* mutant: the open sentence is not emitted before the oversize cue
oversize_branch_keeps_pending(h, pend, s) ==
    LET h2 == IF h.current_chunk # <<>>
              THEN rebind_current(append_current(h, h.cur_tag), <<>>, "none")
              ELSE h
    IN  append_list(h2, <<s>>, "oversize")

\* lines 214-228 without the final `continue`: the lists after a cue `s` that
\* alone exceeds the budget, `pend` being pending_subs
oversize_branch(h, pend, s) ==
    LET h1 == IF pend # <<>>
              THEN rebind_current(
                       append_list(
                           IF h.current_chunk # <<>>
                           THEN append_current(h, h.cur_tag) ELSE h,
                           pend, "open"),
                       <<>>, "none")
              ELSE h
        h2 == IF h1.current_chunk # <<>>
              THEN rebind_current(append_current(h1, h1.cur_tag), <<>>, "none")
              ELSE h1
    IN  append_list(h2, <<s>>, "oversize")

\* mutant: a pending run that fits is emitted whether or not its last cue
\* closes a sentence
overflow_branch_emits_open(h, pend, s, budget) ==
    LET h1 == IF h.current_chunk # <<>>
              THEN append_current(h, h.cur_tag) ELSE h
    IN  IF count_tokens(join_srt(pend)) <= budget
        THEN rebind_current(append_list(h1, pend, "sentence"), <<>>, "none")
        ELSE degenerate_split(pend, h1, budget)

\* lines 249-286: the lists when current_chunk + pending_subs exceeds the
\* budget; `pend` is pending_subs with the cue `s` appended
overflow_branch(h, pend, s, budget) ==
    LET h1 == IF h.current_chunk # <<>>
              THEN append_current(h, h.cur_tag) ELSE h
        pending_tokens == count_tokens(join_srt(pend))
    IN  IF pending_tokens <= budget
        THEN IF is_sentence_end(s)
             THEN rebind_current(append_list(h1, pend, "sentence"), <<>>, "none")
             ELSE rebind_current(h1, pend, "carried")
        ELSE degenerate_split(pend, h1, budget)

\* mutant: the rest of pending_subs is never joined to current_chunk
flush_branch_separate(h, pend, budget) ==
    LET h1 == IF pend # <<>>
              THEN rebind_current(
                       IF h.current_chunk # <<>>
                       THEN append_current(h, h.cur_tag) ELSE h,
                       pend, "tail")
              ELSE h
    IN  IF h1.current_chunk # <<>>
        THEN append_current(h1, h1.cur_tag) ELSE h1

\* mutant: the last chunk is appended without the test `if current_chunk`
flush_branch_unguarded(h, pend, budget) ==
    LET h1 == IF pend # <<>>
              THEN IF /\ h.current_chunk # <<>>
                      /\ count_tokens(join_srt(h.current_chunk \o pend)) <= budget
                   THEN extend_current(h, pend, "tail")
                   ELSE rebind_current(
                            IF h.current_chunk # <<>>
                            THEN append_current(h, h.cur_tag) ELSE h,
                            pend, "tail")
              ELSE h
    IN  append_current(h1, h1.cur_tag)

\* lines 288-305: the lists after the loop
flush_branch(h, pend, budget) ==
    LET h1 == IF pend # <<>>
              THEN IF /\ h.current_chunk # <<>>
                      /\ count_tokens(join_srt(h.current_chunk \o pend)) <= budget
                   THEN extend_current(h, pend, "tail")
                   ELSE rebind_current(
                            IF h.current_chunk # <<>>
                            THEN append_current(h, h.cur_tag) ELSE h,
                            pend, "tail")
              ELSE h
    IN  IF h1.current_chunk # <<>>
        THEN append_current(h1, h1.cur_tag) ELSE h1

(* ------------------------------ inputs --------------------------------- *)
\* cue contents: an open sentence (it ends in a comma), and a sentence closed
\* by a full-width exclamation mark, with trailing white space
SplitContents == { <<"a", ",">>, <<"a", "uFF01", " ">> }

\* the cue lists of length n: cue k carries index k
CueLists(n) ==
    { [k \in 1..n |-> [index |-> k, tok |-> f[k][1], content |-> f[k][2]]] :
        f \in [1..n -> (1..MaxTok) \X SplitContents] }

InitSplit ==
    /\ \E n \in 0..MaxLen : subtitles \in CueLists(n)
    /\ max_tokens \in 0..MaxBudget
    /\ i = 1
    /\ chunks = <<>>
    /\ current_chunk = <<>>
    /\ pending_subs = <<>>
    /\ alias = {}
    /\ tags = <<>>
    /\ cur_tag = "none"
    /\ pc = "loop"
    /\ CoalesceIdle
    /\ GuardIdle
    /\ WorkflowIdle
    /\ MergeIdle
    /\ TwiceIdle

(* --------------------------- split_subtitles --------------------------- *)
\* lines 201-202: if not subtitles or max_tokens <= 0: return []
SplitEmpty ==
    /\ pc = "loop"
    /\ subtitles = <<>> \/ max_tokens <= 0
    /\ pc' = "done"
    /\ UNCHANGED <<subtitles, max_tokens, i, chunks, current_chunk,
                   pending_subs, alias, tags, cur_tag, coalesceVars,
                   guardVars, workflowVars,
                   mergeVars, twiceVars>>

\* the loop `for sub in subtitles` has a cue left
InLoop ==
    /\ pc = "loop"
    /\ ~(subtitles = <<>> \/ max_tokens <= 0)
    /\ i <= Len(subtitles)

\* the loop variable
sub == subtitles[i]

\* lines 210-211
sub_tokens == count_tokens(to_srt(sub))

\* mutant: the cues already in current_chunk are not counted
all_tokens_pending_only ==
    count_tokens(join_srt(Append(pending_subs, sub)))

\* lines 240-242: tokens of current_chunk + pending_subs, the cue appended
all_tokens ==
    count_tokens(join_srt(current_chunk \o Append(pending_subs, sub)))

\* lines 214-228: a cue that alone exceeds the budget
SplitOversize ==
    /\ InLoop
    /\ sub_tokens > max_tokens
    /\ SetHeap(oversize_branch(Heap, pending_subs, sub))
    /\ pending_subs' = <<>>
    /\ i' = i + 1
    /\ UNCHANGED <<subtitles, max_tokens, pc, coalesceVars,
                   guardVars, workflowVars,
                   mergeVars, twiceVars>>

\* lines 237-248: fits and the cue closes a sentence
SplitCommit ==
    /\ InLoop
    /\ ~(sub_tokens > max_tokens)
    /\ all_tokens <= max_tokens
    /\ is_sentence_end(sub)
    /\ SetHeap(extend_current(Heap, Append(pending_subs, sub), "committed"))
    /\ pending_subs' = <<>>
    /\ i' = i + 1
    /\ UNCHANGED <<subtitles, max_tokens, pc, coalesceVars,
                   guardVars, workflowVars,
                   mergeVars, twiceVars>>

\* lines 237-246: fits, the sentence stays open
SplitHold ==
    /\ InLoop
    /\ ~(sub_tokens > max_tokens)
    /\ all_tokens <= max_tokens
    /\ ~is_sentence_end(sub)
    /\ pending_subs' = Append(pending_subs, sub)
    /\ i' = i + 1
    /\ UNCHANGED <<subtitles, max_tokens, pc, chunks, current_chunk, alias,
                   tags, cur_tag, coalesceVars,
                   guardVars, workflowVars,
                   mergeVars, twiceVars>>

\* lines 237-242, 249-286: adding the cue would exceed the budget
SplitOverflow ==
    /\ InLoop
    /\ ~(sub_tokens > max_tokens)
    /\ ~(all_tokens <= max_tokens)
    /\ SetHeap(overflow_branch(Heap, Append(pending_subs, sub), sub, max_tokens))
    /\ pending_subs' = <<>>
    /\ i' = i + 1
    /\ UNCHANGED <<subtitles, max_tokens, pc, coalesceVars,
                   guardVars, workflowVars,
                   mergeVars, twiceVars>>

\* lines 288-307: after the loop
SplitFlush ==
    /\ pc = "loop"
    /\ ~(subtitles = <<>> \/ max_tokens <= 0)
    /\ i > Len(subtitles)
    /\ SetHeap(flush_branch(Heap, pending_subs, max_tokens))
    /\ pc' = "done"
    /\ UNCHANGED <<subtitles, max_tokens, i, pending_subs, coalesceVars,
                   guardVars, workflowVars,
                   mergeVars, twiceVars>>

NextSplit ==
    \/ SplitEmpty
    \/ SplitOversize
    \/ SplitCommit
    \/ SplitHold
    \/ SplitOverflow
    \/ SplitFlush

SpecSplit == InitSplit /\ [][NextSplit]_vars

(* -------------------------- coalesce_subtitles ------------------------- *)
\* index=None (line 405); the indices of parsed cues are not negative
None == -1

\* the default of punct_end (line 339)
DefaultPunctEnd == <<",", "uFF0C", ".", "?", "!", "u3002", "uFF1F", "uFF01">>

\* `char in punct_end` for a string punct_end
in_str(char, str) == \E k \in DOMAIN str : str[k] = char

\* sorted(subtitles, key=lambda s: s.start): stable insertion of `s` after
\* the cues of the sorted list `lst` that do not start later
RECURSIVE insert_by_start(_, _)
insert_by_start(lst, s) ==
    IF lst # <<>> /\ lst[Len(lst)].start > s.start
    THEN Append(insert_by_start(SubSeq(lst, 1, Len(lst) - 1), s), lst[Len(lst)])
    ELSE Append(lst, s)

\* mutant: the list is walked in the order given, line 367 left out
given_order(lst) == lst

RECURSIVE sorted_by_start(_)
sorted_by_start(lst) ==
    IF lst = <<>> THEN <<>>
    ELSE insert_by_start(sorted_by_start(SubSeq(lst, 1, Len(lst) - 1)),
                         lst[Len(lst)])

\* lines 377-384
ends_with_sentence_punct(cur, punct) ==
    LET current_content_stripped == strip(cur.content)
    IN  IF punct # <<>>
        THEN /\ current_content_stripped # <<>>
             /\ in_str(current_content_stripped[Len(current_content_stripped)],
                       punct)
        ELSE FALSE

\* line 386
pause_duration(cur, nxt) == nxt.start - cur.end

\* line 387
potential_total_duration(cur, nxt) == nxt.end - cur.start

\* mutant: a pause equal to max_pause no longer merges
should_merge_strict_pause(cur, nxt, punct, pause, dur) ==
    /\ ~ends_with_sentence_punct(cur, punct)
    /\ pause_duration(cur, nxt) < pause
    /\ potential_total_duration(cur, nxt) <= dur

\* lines 389-393
should_merge(cur, nxt, punct, pause, dur) ==
    /\ ~ends_with_sentence_punct(cur, punct)
    /\ pause_duration(cur, nxt) <= pause
    /\ potential_total_duration(cur, nxt) <= dur

\* max(a, b)
max(a, b) == IF a >= b THEN a ELSE b

\* mutant: the end of next_subtitle is taken, as in line 387
merged_subtitle_end_of_next(cur, nxt) ==
    [index       |-> None,
     start       |-> cur.start,
     end         |-> nxt.end,
     content     |-> strip(cur.content) \o <<" ">> \o strip(nxt.content),
     proprietary |-> cur.proprietary]

\* lines 396-410: the cue built from current_subtitle and next_subtitle
merged_subtitle(cur, nxt) ==
    [index       |-> None,
     start       |-> cur.start,
     end         |-> max(cur.end, nxt.end),
     content     |-> strip(cur.content) \o <<" ">> \o strip(nxt.content),
     proprietary |-> cur.proprietary]

\* cue contents: leading white space and no punctuation; a comma followed by
\* trailing white space
CoalesceContents == { <<" ", "a">>, <<"b", ",", " ">> }

\* the cues that can stand at position k of a list: start <= end, index k
\* and a proprietary text of k characters
CuesAt(k) ==
    { [index       |-> k,
       start       |-> t[1],
       end         |-> t[2],
       content     |-> c,
       proprietary |-> [m \in 1..k |-> "X"]] :
        t \in {u \in (0..MaxTime) \X (0..MaxTime) : u[1] <= u[2]},
        c \in CoalesceContents }

\* the cue lists of length n in ascending order of start
RECURSIVE AscendingCueLists(_)
AscendingCueLists(n) ==
    IF n = 0 THEN {<<>>}
    ELSE UNION { { Append(lst, c) :
                     c \in {d \in CuesAt(n) :
                              lst = <<>> \/ lst[Len(lst)].start <= d.start} } :
                 lst \in AscendingCueLists(n - 1) }

Reverse(lst) == [k \in 1..Len(lst) |-> lst[Len(lst) + 1 - k]]

\* the lists given to coalesce_subtitles: in ascending or in descending order
\* of start (every list sorted() can return is the sorted form of one of them)
InitCoalesce ==
    /\ \E n \in 0..MaxCues : \E lst \in AscendingCueLists(n) :
           co_subtitles \in {lst, Reverse(lst)}
    /\ max_pause \in 0..MaxPause
    /\ punct_end \in {DefaultPunctEnd, <<>>}
    /\ max_dur \in 1..MaxTime
    /\ sorted_subtitles = Unset
    /\ j = 0
    /\ current_subtitle = Unset
    /\ coalesced_subtitles = Unset
    /\ co_pc = "start"
    /\ SplitIdle
    /\ GuardIdle
    /\ WorkflowIdle
    /\ MergeIdle
    /\ TwiceIdle

\* lines 364-365: if not subtitles: return []
CoalesceEmpty ==
    /\ co_pc = "start"
    /\ co_subtitles = <<>>
    /\ coalesced_subtitles' = <<>>
    /\ co_pc' = "done"
    /\ UNCHANGED <<co_subtitles, max_pause, punct_end, max_dur,
                   sorted_subtitles, j, current_subtitle, splitVars,
                   guardVars, workflowVars,
                   mergeVars, twiceVars>>

\* lines 367-374: sort, take the first cue
CoalesceStart ==
    /\ co_pc = "start"
    /\ co_subtitles # <<>>
    /\ sorted_subtitles' = sorted_by_start(co_subtitles)
    /\ coalesced_subtitles' = <<>>
    /\ current_subtitle' = sorted_subtitles'[1]
    /\ j' = 2
    /\ co_pc' = "loop"
    /\ UNCHANGED <<co_subtitles, max_pause, punct_end, max_dur, splitVars,
                   guardVars, workflowVars,
                   mergeVars, twiceVars>>

\* the loop variable
next_subtitle == sorted_subtitles[j]

\* lines 376-410: an iteration that merges
CoalesceMerge ==
    /\ co_pc = "loop"
    /\ j <= Len(sorted_subtitles)
    /\ should_merge(current_subtitle, next_subtitle, punct_end, max_pause, max_dur)
    /\ current_subtitle' = merged_subtitle(current_subtitle, next_subtitle)
    /\ j' = j + 1
    /\ UNCHANGED <<co_subtitles, max_pause, punct_end, max_dur,
                   sorted_subtitles, coalesced_subtitles, co_pc, splitVars,
                   guardVars, workflowVars,
                   mergeVars, twiceVars>>

\* lines 376-393, 411-413: an iteration that does not merge
CoalesceKeep ==
    /\ co_pc = "loop"
    /\ j <= Len(sorted_subtitles)
    /\ ~should_merge(current_subtitle, next_subtitle, punct_end, max_pause, max_dur)
    /\ coalesced_subtitles' = Append(coalesced_subtitles, current_subtitle)
    /\ current_subtitle' = next_subtitle
    /\ j' = j + 1
    /\ UNCHANGED <<co_subtitles, max_pause, punct_end, max_dur,
                   sorted_subtitles, co_pc, splitVars,
                   guardVars, workflowVars,
                   mergeVars, twiceVars>>

\* lines 415-417: after the loop
CoalesceFinish ==
    /\ co_pc = "loop"
    /\ j > Len(sorted_subtitles)
    /\ coalesced_subtitles' = Append(coalesced_subtitles, current_subtitle)
    /\ co_pc' = "done"
    /\ UNCHANGED <<co_subtitles, max_pause, punct_end, max_dur,
                   sorted_subtitles, j, current_subtitle, splitVars,
                   guardVars, workflowVars,
                   mergeVars, twiceVars>>

NextCoalesce ==
    \/ CoalesceEmpty
    \/ CoalesceStart
    \/ CoalesceMerge
    \/ CoalesceKeep
    \/ CoalesceFinish

SpecCoalesce == InitCoalesce /\ [][NextCoalesce]_vars

(* ---------------- coalesce_subtitles applied twice ---------------------- *)
\* lines 376-415: the loop from position k of the sorted list `lst`, with
\* current_subtitle `cur` and coalesced_subtitles `out`
RECURSIVE coalesce_loop(_, _, _, _, _, _, _)
coalesce_loop(lst, k, cur, out, punct, pause, dur) ==
    IF k > Len(lst)
    THEN Append(out, cur)
    ELSE IF should_merge(cur, lst[k], punct, pause, dur)
         THEN coalesce_loop(lst, k + 1, merged_subtitle(cur, lst[k]), out,
                            punct, pause, dur)
         ELSE coalesce_loop(lst, k + 1, lst[k], Append(out, cur),
                            punct, pause, dur)

\* lines 335-417: the list coalesce_subtitles returns
coalesce_subtitles(subs, pause, punct, dur) ==
    IF subs = <<>>
    THEN <<>>
    ELSE LET sorted == sorted_by_start(subs)
         IN  coalesce_loop(sorted, 2, sorted[1], <<>>, punct, pause, dur)

\* a list and the arguments that both calls are given
InitTwice ==
    /\ \E n \in 0..MaxCues : \E lst \in AscendingCueLists(n) :
           tw_subtitles \in {lst, Reverse(lst)}
    /\ tw_max_pause \in 0..MaxPause
    /\ tw_punct_end \in {DefaultPunctEnd, <<>>}
    /\ tw_max_dur \in 1..MaxTime
    /\ tw_once = Unset
    /\ tw_twice = Unset
    /\ tw_pc = "first"
    /\ SplitIdle
    /\ CoalesceIdle
    /\ GuardIdle
    /\ WorkflowIdle
    /\ MergeIdle

\* once = await coalesce_subtitles(subtitles, max_pause, punct_end, max_dur)
TwiceFirst ==
    /\ tw_pc = "first"
    /\ tw_once' = coalesce_subtitles(tw_subtitles, tw_max_pause, tw_punct_end,
                                     tw_max_dur)
    /\ tw_pc' = "second"
    /\ UNCHANGED <<tw_subtitles, tw_max_pause, tw_punct_end, tw_max_dur,
                   tw_twice, splitVars, coalesceVars, guardVars,
                   workflowVars, mergeVars>>

\* twice = await coalesce_subtitles(once, max_pause, punct_end, max_dur)
TwiceSecond ==
    /\ tw_pc = "second"
    /\ tw_twice' = coalesce_subtitles(tw_once, tw_max_pause, tw_punct_end,
                                      tw_max_dur)
    /\ tw_pc' = "returned"
    /\ UNCHANGED <<tw_subtitles, tw_max_pause, tw_punct_end, tw_max_dur,
                   tw_once, splitVars, coalesceVars, guardVars,
                   workflowVars, mergeVars>>

NextTwice ==
    \/ TwiceFirst
    \/ TwiceSecond

SpecTwice == InitTwice /\ [][NextTwice]_vars

(* ------------------------- SRT text (parser) --------------------------- *)
\* str(index) for the indices 0..9; int(raw_index) is its inverse
Decimal == <<"0", "1", "2", "3", "4", "5", "6", "7", "8", "9">>

str(n) == Decimal[n + 1]

int(raw) == (CHOOSE k \in DOMAIN Decimal : Decimal[k] = raw) - 1

\* the time stamps HH:MM:SS,mmm of the whole seconds 0..3
TimestampText ==
    <<"00:00:00,000", "00:00:01,000", "00:00:02,000", "00:00:03,000">>

timedelta_to_srt_timestamp(t) == TimestampText[t + 1]

srt_timestamp_to_timedelta(raw) ==
    (CHOOSE k \in DOMAIN TimestampText : TimestampText[k] = raw) - 1

\* RGX_INDEX, RGX_TIMESTAMP: the atoms an index and a time stamp match
IsIndex(atom) == \E k \in DOMAIN Decimal : Decimal[k] = atom

IsTimestamp(atom) == \E k \in DOMAIN TimestampText : TimestampText[k] = atom

\* the arrow between the two time stamps of a cue header
Arrow == " --> "

\* the lines of a text, without their line ends
RECURSIVE splitlines(_)
splitlines(text) ==
    IF text = <<>> THEN <<>>
    ELSE LET ends == {k \in DOMAIN text : text[k] = "\n"}
         IN  IF ends = {} THEN <<text>>
             ELSE LET e == CHOOSE k \in ends : \A m \in ends : k <= m
                  IN  <<SubSeq(text, 1, e - 1)>>
                          \o splitlines(SubSeq(text, e + 1, Len(text)))

\* the lines joined by line ends
RECURSIVE joinlines(_)
joinlines(lines) ==
    IF lines = <<>> THEN <<>>
    ELSE IF Len(lines) = 1 THEN lines[1]
    ELSE lines[1] \o <<"\n">> \o joinlines(Tail(lines))

IsBlankLine(line) == \A k \in DOMAIN line : line[k] \in Whitespace

IsIndexLine(line) == Len(line) = 1 /\ IsIndex(line[1])

IsTimestampLine(line) ==
    /\ Len(line) >= 3
    /\ IsTimestamp(line[1])
    /\ line[2] = Arrow
    /\ IsTimestamp(line[3])

\* Subtitle.to_srt(strict=True, eol="\n") with the index given
srt_block(index, start, end, proprietary, content) ==
    <<str(index), "\n",
      timedelta_to_srt_timestamp(start), Arrow, timedelta_to_srt_timestamp(end)>>
        \o proprietary \o <<"\n">> \o content \o <<"\n", "\n">>

\* the number of lines at the head of `lines` that are not blank
RECURSIVE content_length(_)
content_length(lines) ==
    IF lines = <<>> \/ IsBlankLine(Head(lines)) THEN 0
    ELSE 1 + content_length(Tail(lines))

\* the result of a parse: the cues, or SRTParseError raised
Parsed(cues) == [raised |-> FALSE, cues |-> cues]

SRTParseError == [raised |-> TRUE, cues |-> <<>>]

\* SrtParser.parse(srt, ignore_errors=False) on the lines of the text: blank
\* lines between cues are skipped; a cue is an index line, a time stamp line
\* and one or more content lines up to a blank line or the end of the text;
\* anything else where a cue must start is a parse error
RECURSIVE parse_lines(_)
parse_lines(lines) ==
    IF lines = <<>> THEN Parsed(<<>>)
    ELSE IF IsBlankLine(Head(lines)) THEN parse_lines(Tail(lines))
    ELSE IF /\ Len(lines) >= 3
            /\ IsIndexLine(lines[1])
            /\ IsTimestampLine(lines[2])
            /\ ~IsBlankLine(lines[3])
    THEN LET n       == content_length(SubSeq(lines, 3, Len(lines)))
             content == joinlines(SubSeq(lines, 3, 2 + n))
             index   == int(lines[1][1])
             start   == srt_timestamp_to_timedelta(lines[2][1])
             end     == srt_timestamp_to_timedelta(lines[2][3])
             proprietary == SubSeq(lines[2], 4, Len(lines[2]))
             cue == [index       |-> index,
                     start       |-> start,
                     end         |-> end,
                     content     |-> content,
                     proprietary |-> proprietary,
                     tok |-> Len(srt_block(index, start, end, proprietary, content))]
             rest == parse_lines(SubSeq(lines, 3 + n, Len(lines)))
         IN  IF rest.raised THEN SRTParseError
             ELSE Parsed(<<cue>> \o rest.cues)
    ELSE SRTParseError

parse(srt) == parse_lines(splitlines(srt))

\* make_legal_content: no blank line inside the content of a composed cue
make_legal_content(content) ==
    joinlines(SelectSeq(splitlines(content), LAMBDA line : ~IsBlankLine(line)))

\* SrtParser.compose(subtitles, reindex=True, start_index=1, strict=True):
\* the blocks of the cues in the order given, numbered from 1
RECURSIVE compose_from(_, _)
compose_from(subs, index) ==
    IF subs = <<>> THEN <<>>
    ELSE srt_block(index, Head(subs).start, Head(subs).end,
                   Head(subs).proprietary, make_legal_content(Head(subs).content))
             \o compose_from(Tail(subs), index + 1)

compose(subs) == compose_from(subs, 1)

(* ------------------- is_valid_srt_format (workflow.py) ----------------- *)
\* re.search found nothing
NoMatch == 0

\* SRT_BLOCK_START_PATTERN.search(content).start(1): the position of the
\* first index that is followed, on the next line, by two time stamps with
\* an arrow between them
SRT_BLOCK_START_PATTERN_search(content) ==
    LET starts == { p \in DOMAIN content :
                      /\ p + 4 <= Len(content)
                      /\ IsIndex(content[p])
                      /\ content[p + 1] = "\n"
                      /\ IsTimestamp(content[p + 2])
                      /\ content[p + 3] = Arrow
                      /\ IsTimestamp(content[p + 4]) }
    IN  IF starts = {} THEN NoMatch
        ELSE CHOOSE p \in starts : \A q \in starts : p <= q

\* the three backquotes that open and close a code block
Fence == "[fence]"

\* where `\n\s*```` matches at or after position `from`
code_block_ends(content, from) ==
    { c \in from..Len(content) :
        /\ content[c] = "\n"
        /\ \E e \in (c + 1)..Len(content) :
               /\ content[e] = Fence
               /\ \A m \in (c + 1)..(e - 1) : content[m] \in Whitespace }

\* where the body of a block opened by the fence at position q can start:
\* right after a line end that only white space separates from the fence
\* (and its tag), provided the block is closed further on
code_block_starts(content, q) ==
    LET b == IF q + 1 <= Len(content) /\ content[q + 1] = "srt"
             THEN q + 2 ELSE q + 1
    IN  { n + 1 : n \in { m \in b..Len(content) :
                            /\ content[m] = "\n"
                            /\ \A k \in b..(m - 1) : content[k] \in Whitespace
                            /\ code_block_ends(content, m + 1) # {} } }

\* CODE_BLOCK_PATTERN.search(content): the fences that open a block
code_block_openers(content) ==
    { q \in DOMAIN content :
        content[q] = Fence /\ code_block_starts(content, q) # {} }

\* CODE_BLOCK_PATTERN.search(content).group(1): the body of the first code
\* block (greedy white space after the fence, shortest body)
CODE_BLOCK_PATTERN_group1(content) ==
    LET openers == code_block_openers(content)
        q  == CHOOSE p \in openers : \A r \in openers : p <= r
        ss == code_block_starts(content, q)
        s  == CHOOSE p \in ss : \A r \in ss : p >= r
        es == code_block_ends(content, s)
        e  == CHOOSE p \in es : \A r \in es : p <= r
    IN  SubSeq(content, s, e - 1)

\* the ways an attempt of is_valid_srt_format can end: it found cues, it
\* found none (the next attempt follows), or an exception left it
Found == "found"
NotFound == "not found"
Raised == "raised"

\* what `subtitle = parse(text); if subtitle: return True, ""` does when no
\* try block stands around it
parse_attempt(text) ==
    LET subtitle == parse(text)
    IN  IF subtitle.raised THEN Raised
        ELSE IF subtitle.cues # <<>> THEN Found ELSE NotFound

\* mutant: the first parse stands outside a try block
direct_parse_unguarded(content) == parse_attempt(content)

\* lines 161-166: the direct parse; `except Exception: pass`
direct_parse(content) ==
    IF parse_attempt(content) = Raised THEN NotFound
    ELSE parse_attempt(content)

\* lines 171-180: the parse from the first cue header
parse_from_block_start(content) ==
    LET match == SRT_BLOCK_START_PATTERN_search(content)
    IN  IF match # NoMatch
        THEN parse_attempt(SubSeq(content, match, Len(content)))
        ELSE NotFound

\* lines 183-188: the parse of the body of the first code block
parse_code_block(content) ==
    IF code_block_openers(content) # {}
    THEN parse_attempt(CODE_BLOCK_PATTERN_group1(content))
    ELSE NotFound

\* the results of is_valid_srt_format: (is_valid, error_msg), or an exception
Valid == [is_valid |-> TRUE, error_msg |-> "", raised |-> FALSE]
Invalid(msg) == [is_valid |-> FALSE, error_msg |-> msg, raised |-> FALSE]
Escaped == [is_valid |-> FALSE, error_msg |-> "", raised |-> TRUE]

\* lines 168-192: the two extractions, in one try block
extract_srt(content) ==
    IF parse_from_block_start(content) = Found THEN Valid
    ELSE IF parse_from_block_start(content) = Raised
    THEN Invalid("SRT extraction failed")
    ELSE IF parse_code_block(content) = Found THEN Valid
    ELSE IF parse_code_block(content) = Raised
    THEN Invalid("SRT extraction failed")
    ELSE Invalid("no valid SRT found")

\* lines 147-192
is_valid_srt_format(content) ==
    IF content = <<>> \/ strip(content) = <<>> THEN Invalid("content is empty")
    ELSE IF direct_parse(content) = Found THEN Valid
    ELSE IF direct_parse(content) = Raised THEN Escaped
    ELSE extract_srt(content)

(* ------------------------ the guard on its own ------------------------- *)
\* pieces of the text of an agent's answer: a cue, a second cue after a
\* blank line, an index with a broken time stamp line after a blank line, a
\* remark, the opening and the closing fence of a code block, a cue in a
\* code block, a line end and a blank
Pieces ==
    { <<"1", "\n", "00:00:01,000", Arrow, "00:00:02,000", "\n", "a", "uFF01">>,
      <<"\n", "\n", "2", "\n", "00:00:02,000", Arrow, "00:00:03,000", "\n", "b">>,
      <<"\n", "\n", "2", "\n", "00:00:03,000", "x", "\n">>,
      <<"s", "o", "r", "r", "y">>,
      <<Fence, "srt", "\n">>,
      <<"\n", Fence>>,
      <<Fence, "srt", "\n", "1", "\n", "00:00:01,000", Arrow, "00:00:02,000",
        "\n", "u4F60", "u597D", "\n", Fence>>,
      <<"\n">>,
      <<" ">> }

\* the texts made of n pieces
RECURSIVE Texts(_)
Texts(n) ==
    IF n = 0 THEN {<<>>}
    ELSE { t \o p : t \in Texts(n - 1), p \in Pieces }

InitGuard ==
    /\ \E n \in 0..MaxPieces : g_content \in Texts(n)
    /\ g_result = Unset
    /\ g_pc = "call"
    /\ SplitIdle
    /\ CoalesceIdle
    /\ WorkflowIdle
    /\ MergeIdle
    /\ TwiceIdle

\* is_valid_srt_format(content) is called
GuardCall ==
    /\ g_pc = "call"
    /\ g_result' = is_valid_srt_format(g_content)
    /\ g_pc' = IF is_valid_srt_format(g_content).raised
               THEN "raised" ELSE "returned"
    /\ UNCHANGED <<g_content, splitVars, coalesceVars, workflowVars,
                   mergeVars, twiceVars>>

NextGuard == GuardCall

SpecGuard == InitGuard /\ [][NextGuard]_vars

(* ----------------------- _process_chunk (stages) ----------------------- *)
\* lines 221-234: the text from the first cue header on, when it parses
from_block_start(content) ==
    LET match == SRT_BLOCK_START_PATTERN_search(content)
        extracted_content == SubSeq(content, match, Len(content))
    IN  IF match # NoMatch /\ parse_attempt(extracted_content) = Found
        THEN [is_valid |-> TRUE, content |-> extracted_content]
        ELSE [is_valid |-> FALSE, content |-> content]

\* lines 237-249: the body of the first code block, when it parses
from_code_block(content) ==
    IF /\ code_block_openers(content) # {}
       /\ parse_attempt(CODE_BLOCK_PATTERN_group1(content)) = Found
    THEN [is_valid |-> TRUE, content |-> CODE_BLOCK_PATTERN_group1(content)]
    ELSE [is_valid |-> FALSE, content |-> content]

\* mutant: an output that is not valid is carried on as it is
checked_output_no_fallback(output, previous) ==
    IF is_valid_srt_format(output).is_valid THEN output
    ELSE IF from_block_start(output).is_valid
    THEN from_block_start(output).content
    ELSE IF from_code_block(output).is_valid
    THEN from_code_block(output).content
    ELSE output

\* lines 217-258 (269-310, 321-362): the text a stage hands on, `output`
\* being what its agent returned and `previous` the text given to the agent
checked_output(output, previous) ==
    IF is_valid_srt_format(output).is_valid THEN output
    ELSE IF from_block_start(output).is_valid
    THEN from_block_start(output).content
    ELSE IF from_code_block(output).is_valid
    THEN from_code_block(output).content
    ELSE previous

(* --------------------- split_subtitles as a function ------------------- *)
\* the lists of split_subtitles before the loop
EmptyHeap == [chunks |-> <<>>, tags |-> <<>>, current_chunk |-> <<>>,
              alias |-> {}, cur_tag |-> "none"]

\* lines 208-286: the loop `for sub in subtitles` from the cue at position k
RECURSIVE split_loop(_, _, _, _, _)
split_loop(subs, k, h, pend, budget) ==
    IF k > Len(subs) THEN flush_branch(h, pend, budget)
    ELSE LET s == subs[k]
         IN  IF count_tokens(to_srt(s)) > budget
             THEN split_loop(subs, k + 1, oversize_branch(h, pend, s), <<>>, budget)
             ELSE IF count_tokens(join_srt(h.current_chunk \o Append(pend, s)))
                        <= budget
             THEN IF is_sentence_end(s)
                  THEN split_loop(subs, k + 1,
                                  extend_current(h, Append(pend, s), "committed"),
                                  <<>>, budget)
                  ELSE split_loop(subs, k + 1, h, Append(pend, s), budget)
             ELSE split_loop(subs, k + 1,
                             overflow_branch(h, Append(pend, s), s, budget),
                             <<>>, budget)

\* lines 183-307: the chunks split_subtitles returns
split_subtitles(subs, budget) ==
    IF subs = <<>> \/ budget <= 0 THEN <<>>
    ELSE split_loop(subs, 1, EmptyHeap, <<>>, budget).chunks

(* ------------------------------- arun ---------------------------------- *)
\* a RunResponse yielded by arun: what it reports, and for the responses of
\* the loop the chunk number i and the number of chunks n (0 elsewhere)
Response(event, k, n) == [event |-> event, i |-> k, n |-> n]

\* the `event` of a RunResponse: arun passes RunEvent.workflow_started at
\* line 71 and RunEvent.workflow_completed with the responses it yields
\* before a return (lines 80, 93, 108, 118, 126, 143); the others carry the
\* default of RunResponse
RunEvent(response) ==
    IF response.event = "workflow_started" THEN "workflow_started"
    ELSE IF response.event \in {"read_failed", "split_failed", "compose_failed",
                                "process_failed", "parse_failed", "completed"}
    THEN "workflow_completed"
    ELSE "run_response"

\* lines 101-103
chunk_progress(k, n) == Response("chunk_progress", k, n)

\* mutant: the response reports the chunk after the one just finished
chunk_done_of_next(k, n) == Response("chunk_done", k + 1, n)

\* lines 131-133
chunk_done(k, n) == Response("chunk_done", k, n)

\* texts an agent may answer: a refusal, a cue in a code block, a cue, a
\* cue after a remark, a cue and a broken cue before a cue in a code block,
\* a cue header without content, a cue numbered 7 that starts later than
\* the first cues of the file, a refusal in a code block, nothing, blanks
Sorry == <<"s", "o", "r", "r", "y">>

CueText ==
    <<"1", "\n", "00:00:01,000", Arrow, "00:00:02,000", "\n",
      "u4F60", "u597D", "\n", "\n">>

FencedCue ==
    <<Fence, "srt", "\n", "1", "\n", "00:00:01,000", Arrow, "00:00:02,000",
      "\n", "u4F60", "u597D", "\n", Fence>>

AfterRemark == <<"O", "K", "\n">> \o CueText

BrokenBeforeFence ==
    <<"1", "\n", "00:00:01,000", Arrow, "00:00:02,000", "\n", "a", "uFF01",
      "\n", "\n", "2", "\n", "00:00:03,000", "x", "\n">> \o FencedCue

HeaderOnly == <<"1", "\n", "00:00:01,000", Arrow, "00:00:02,000">>

LateCue ==
    <<"7", "\n", "00:00:02,000", Arrow, "00:00:03,000", "\n",
      "u597D", "\n", "\n">>

FencedSorry == <<Fence, "\n">> \o Sorry \o <<"\n", Fence>>

\* what an agent may return for the text `input`: the text itself or one of
\* the answers above
AgentOutputs(input) ==
    { input, Sorry, CueText, FencedCue, AfterRemark, BrokenBeforeFence,
      HeaderOnly, LateCue, FencedSorry, <<>>, <<" ", "\n">> }

\* cue contents of the input file: a closed and an open sentence
FileContents == { <<"a", "uFF01">>, <<"b", ",">> }

\* the cue lists of length n of an input file: cue k is number k and lasts
\* from second k - 1 to second k
FileCueLists(n) ==
    { [k \in 1..n |->
          [index |-> k, start |-> k - 1, end |-> k, content |-> f[k],
           proprietary |-> <<>>,
           tok |-> Len(srt_block(k, k - 1, k, <<>>, f[k]))]] :
        f \in [1..n -> FileContents] }

\* the input files: missing, empty, not SRT, or the text of a cue list
SrtFiles ==
    { [exists |-> FALSE, text |-> <<>>],
      [exists |-> TRUE, text |-> <<>>],
      [exists |-> TRUE, text |-> Sorry] }
    \cup { [exists |-> TRUE, text |-> compose(lst)] :
             lst \in UNION { FileCueLists(n) : n \in 1..MaxFileCues } }

\* values of self.max_tokens: none, room for one cue, room for all cues
WorkflowBudgets == {0, 12, 100}

InitWorkflow ==
    /\ srt_file \in SrtFiles
    /\ wf_max_tokens \in WorkflowBudgets
    /\ wf_subtitles = Unset
    /\ wf_chunks = Unset
    /\ wf_i = 0
    /\ chunk_srt = Unset
    /\ segmented = Unset
    /\ segmented_content = Unset
    /\ proofread = Unset
    /\ proofread_content = Unset
    /\ translated = Unset
    /\ translated_content = Unset
    /\ processed_subtitles = Unset
    /\ events = <<>>
    /\ output_file = Unset
    /\ written = FALSE
    /\ wf_error = "none"
    /\ wf_pc = "start"
    /\ calls = <<>>
    /\ wf_timeout = 0
    /\ SplitIdle
    /\ CoalesceIdle
    /\ GuardIdle
    /\ MergeIdle
    /\ TwiceIdle

\* arun returns after yielding the response `event`
ReturnAfter(event) ==
    /\ events' = Append(events, Response(event, 0, 0))
    /\ wf_pc' = "returned"
    /\ wf_error' = wf_error

\* the exception `error` leaves arun
Raise(error) ==
    /\ wf_error' = error
    /\ wf_pc' = "raised"
    /\ events' = events

\* a call of an agent's arun, made during the chunk number k
Call(agent, k) == [agent |-> agent, chunk |-> k]

\* mutant: the Translator is called before the Proofreader
agent_at_translator_first(stage) ==
    CASE stage = "segment"   -> "Segmenter"
      [] stage = "proofread" -> "Translator"
      [] stage = "translate" -> "Proofreader"

\* the agent _process_chunk calls at each of its three stages
agent_at(stage) ==
    CASE stage = "segment"   -> "Segmenter"
      [] stage = "proofread" -> "Proofreader"
      [] stage = "translate" -> "Translator"

\* lines 69-75
ArunStart ==
    /\ wf_pc = "start"
    /\ events' = events \o <<Response("workflow_started", 0, 0),
                             Response("reading", 0, 0)>>
    /\ wf_pc' = "read"
    /\ UNCHANGED <<srt_file, wf_max_tokens, calls, wf_timeout, wf_subtitles, wf_chunks, wf_i,
                   chunk_srt, segmented, segmented_content, proofread,
                   proofread_content, translated, translated_content,
                   processed_subtitles, output_file, written, wf_error,
                   splitVars, coalesceVars, guardVars,
                   mergeVars, twiceVars>>

\* lines 76-88, service.py lines 88-109: read and parse the file
ArunRead ==
    /\ wf_pc = "read"
    /\ IF ~srt_file.exists
       THEN Raise("FileNotFoundError") /\ UNCHANGED wf_subtitles
       ELSE IF parse(srt_file.text).raised
       THEN Raise("SRTParseError") /\ UNCHANGED wf_subtitles
       ELSE /\ wf_subtitles' = parse(srt_file.text).cues
            /\ IF wf_subtitles' = <<>>
               THEN ReturnAfter("read_failed")
               ELSE /\ events' = events \o <<Response("read_done", 0, 0),
                                             Response("splitting", 0, 0)>>
                    /\ wf_pc' = "split"
                    /\ wf_error' = wf_error
    /\ UNCHANGED <<srt_file, wf_max_tokens, calls, wf_timeout, wf_chunks, wf_i,
                   chunk_srt, segmented, segmented_content, proofread,
                   proofread_content, translated, translated_content,
                   processed_subtitles, output_file, written,
                   splitVars, coalesceVars, guardVars,
                   mergeVars, twiceVars>>

\* line 76: the task is cancelled while arun waits for the file; the
\* CancelledError leaves arun
ArunReadCancelled ==
    /\ wf_pc = "read"
    /\ srt_file.exists
    /\ Raise("CancelledError")
    /\ UNCHANGED <<srt_file, wf_max_tokens, calls, wf_timeout, wf_subtitles,
                   wf_chunks, wf_i,
                   chunk_srt, segmented, segmented_content, proofread,
                   proofread_content, translated, translated_content,
                   processed_subtitles, output_file, written,
                   splitVars, coalesceVars, guardVars,
                   mergeVars, twiceVars>>

\* lines 89-98
ArunSplit ==
    /\ wf_pc = "split"
    /\ wf_chunks' = split_subtitles(wf_subtitles, wf_max_tokens)
    /\ IF wf_chunks' = <<>>
       THEN ReturnAfter("split_failed") /\ UNCHANGED <<processed_subtitles, wf_i>>
       ELSE /\ events' = Append(events,
                                Response("split_done", 0, Len(wf_chunks')))
            /\ processed_subtitles' = <<>>
            /\ wf_i' = 1
            /\ wf_pc' = "chunk"
            /\ wf_error' = wf_error
    /\ UNCHANGED <<srt_file, wf_max_tokens, calls, wf_timeout, wf_subtitles,
                   chunk_srt, segmented, segmented_content, proofread,
                   proofread_content, translated, translated_content,
                   output_file, written,
                   splitVars, coalesceVars, guardVars,
                   mergeVars, twiceVars>>

\* the chunk of the loop `for i, chunk in enumerate(chunks, 1)`
chunk == wf_chunks[wf_i]

\* lines 100-111 and 207: the next chunk is composed and _process_chunk is
\* entered
ChunkStart ==
    /\ wf_pc = "chunk"
    /\ wf_i <= Len(wf_chunks)
    /\ chunk_srt' = compose(chunk)
    /\ IF chunk_srt' = <<>>
       THEN /\ events' = events \o <<chunk_progress(wf_i, Len(wf_chunks)),
                                     Response("compose_failed", wf_i, 0)>>
            /\ wf_pc' = "returned"
       ELSE /\ events' = Append(events, chunk_progress(wf_i, Len(wf_chunks)))
            /\ wf_pc' = "segment"
    /\ segmented' = Unset
    /\ segmented_content' = Unset
    /\ proofread' = Unset
    /\ proofread_content' = Unset
    /\ translated' = Unset
    /\ translated_content' = Unset
    /\ UNCHANGED <<srt_file, wf_max_tokens, calls, wf_timeout, wf_subtitles, wf_chunks, wf_i,
                   processed_subtitles, output_file, written, wf_error,
                   splitVars, coalesceVars, guardVars,
                   mergeVars, twiceVars>>

\* lines 209-258: the Segmenter answers and its answer is checked
Segment ==
    /\ wf_pc = "segment"
    /\ calls' = Append(calls, Call(agent_at(wf_pc), wf_i))
    /\ \E output \in AgentOutputs(chunk_srt) :
           /\ segmented' = output
           /\ IF is_valid_srt_format(output).raised
              THEN Raise("SRTParseError") /\ UNCHANGED segmented_content
              ELSE /\ segmented_content' = checked_output(output, chunk_srt)
                   /\ wf_pc' = "proofread"
                   /\ UNCHANGED <<events, wf_error>>
    /\ UNCHANGED <<srt_file, wf_max_tokens, wf_timeout, wf_subtitles, wf_chunks, wf_i,
                   chunk_srt, proofread, proofread_content, translated,
                   translated_content, processed_subtitles, output_file,
                   written, splitVars, coalesceVars, guardVars,
                   mergeVars, twiceVars>>

\* lines 260-310: the Proofreader answers and its answer is checked
Proofread ==
    /\ wf_pc = "proofread"
    /\ calls' = Append(calls, Call(agent_at(wf_pc), wf_i))
    /\ \E output \in AgentOutputs(segmented_content) :
           /\ proofread' = output
           /\ IF is_valid_srt_format(output).raised
              THEN Raise("SRTParseError") /\ UNCHANGED proofread_content
              ELSE /\ proofread_content' =
                          checked_output(output, segmented_content)
                   /\ wf_pc' = "translate"
                   /\ UNCHANGED <<events, wf_error>>
    /\ UNCHANGED <<srt_file, wf_max_tokens, wf_timeout, wf_subtitles, wf_chunks, wf_i,
                   chunk_srt, segmented, segmented_content, translated,
                   translated_content, processed_subtitles, output_file,
                   written, splitVars, coalesceVars, guardVars,
                   mergeVars, twiceVars>>

\* lines 312-364: the Translator answers, its answer is checked and
\* _process_chunk returns
Translate ==
    /\ wf_pc = "translate"
    /\ calls' = Append(calls, Call(agent_at(wf_pc), wf_i))
    /\ \E output \in AgentOutputs(proofread_content) :
           /\ translated' = output
           /\ IF is_valid_srt_format(output).raised
              THEN Raise("SRTParseError") /\ UNCHANGED translated_content
              ELSE /\ translated_content' =
                          checked_output(output, proofread_content)
                   /\ wf_pc' = "parse"
                   /\ UNCHANGED <<events, wf_error>>
    /\ UNCHANGED <<srt_file, wf_max_tokens, wf_timeout, wf_subtitles, wf_chunks, wf_i,
                   chunk_srt, segmented, segmented_content, proofread,
                   proofread_content, processed_subtitles, output_file,
                   written, splitVars, coalesceVars, guardVars,
                   mergeVars, twiceVars>>

\* lines 211, 262, 314: the call of an agent raises (an error of the agent,
\* or the CancelledError of a task cancelled while it waits for the agent)
AgentRaises ==
    /\ wf_pc \in {"segment", "proofread", "translate"}
    /\ Raise("agent error")
    /\ calls' = Append(calls, Call(agent_at(wf_pc), wf_i))
    /\ UNCHANGED <<srt_file, wf_max_tokens, wf_timeout, wf_subtitles, wf_chunks, wf_i,
                   chunk_srt, segmented, segmented_content, proofread,
                   proofread_content, translated, translated_content,
                   processed_subtitles, output_file, written,
                   splitVars, coalesceVars, guardVars,
                   mergeVars, twiceVars>>

\* mutant: the cues of a chunk are put in front of the earlier ones
extend_in_front(lst, more) == more \o lst

\* line 130: list.extend
extend(lst, more) == lst \o more

\* lines 112-133: the text _process_chunk returned is parsed and its cues
\* are added to processed_subtitles
ChunkParse ==
    /\ wf_pc = "parse"
    /\ LET processed_srt == translated_content
       IN  IF processed_srt = <<>>
           THEN /\ events' = Append(events, Response("process_failed", wf_i, 0))
                /\ wf_pc' = "returned"
                /\ UNCHANGED <<processed_subtitles, wf_i, wf_error>>
           ELSE IF parse(processed_srt).raised
           THEN Raise("SRTParseError") /\ UNCHANGED <<processed_subtitles, wf_i>>
           ELSE IF parse(processed_srt).cues = <<>>
           THEN /\ events' = Append(events, Response("parse_failed", wf_i, 0))
                /\ wf_pc' = "returned"
                /\ UNCHANGED <<processed_subtitles, wf_i, wf_error>>
           ELSE /\ processed_subtitles' =
                       extend(processed_subtitles, parse(processed_srt).cues)
                /\ events' = Append(events, chunk_done(wf_i, Len(wf_chunks)))
                /\ wf_i' = wf_i + 1
                /\ wf_pc' = "chunk"
                /\ wf_error' = wf_error
    /\ UNCHANGED <<srt_file, wf_max_tokens, calls, wf_timeout, wf_subtitles, wf_chunks,
                   chunk_srt, segmented, segmented_content, proofread,
                   proofread_content, translated, translated_content,
                   output_file, written, splitVars, coalesceVars, guardVars,
                   mergeVars, twiceVars>>

\* mutant: the cues are saved as soon as one chunk is done
ArunWrite_in_loop ==
    /\ wf_pc = "chunk"
    /\ wf_i > 1
    /\ \E saved \in BOOLEAN :
           IF saved
           THEN /\ output_file' = compose(processed_subtitles)
                /\ written' = TRUE
                /\ events' = events \o <<Response("writing", 0, 0),
                                         Response("completed", 0, 0)>>
                /\ wf_pc' = "returned"
                /\ wf_error' = wf_error
           ELSE /\ events' = Append(events, Response("writing", 0, 0))
                /\ wf_error' = "OSError"
                /\ wf_pc' = "raised"
                /\ UNCHANGED <<output_file, written>>
    /\ UNCHANGED <<srt_file, wf_max_tokens, calls, wf_timeout, wf_subtitles, wf_chunks, wf_i,
                   chunk_srt, segmented, segmented_content, proofread,
                   proofread_content, translated, translated_content,
                   processed_subtitles, splitVars, coalesceVars, guardVars,
                   mergeVars, twiceVars>>

\* lines 134-145, service.py lines 111-141: the cues are composed and saved;
\* saving may raise
ArunWrite ==
    /\ wf_pc = "chunk"
    /\ wf_i > Len(wf_chunks)
    /\ \E saved \in BOOLEAN :
           IF saved
           THEN /\ output_file' = compose(processed_subtitles)
                /\ written' = TRUE
                /\ events' = events \o <<Response("writing", 0, 0),
                                         Response("completed", 0, 0)>>
                /\ wf_pc' = "returned"
                /\ wf_error' = wf_error
           ELSE /\ events' = Append(events, Response("writing", 0, 0))
                /\ wf_error' = "OSError"
                /\ wf_pc' = "raised"
                /\ UNCHANGED <<output_file, written>>
    /\ UNCHANGED <<srt_file, wf_max_tokens, calls, wf_timeout, wf_subtitles, wf_chunks, wf_i,
                   chunk_srt, segmented, segmented_content, proofread,
                   proofread_content, translated, translated_content,
                   processed_subtitles, splitVars, coalesceVars, guardVars,
                   mergeVars, twiceVars>>

NextWorkflow ==
    \/ ArunStart
    \/ ArunRead
    \/ ArunReadCancelled
    \/ ArunSplit
    \/ ChunkStart
    \/ Segment
    \/ Proofread
    \/ Translate
    \/ AgentRaises
    \/ ChunkParse
    \/ ArunWrite

SpecWorkflow == InitWorkflow /\ [][NextWorkflow]_vars

(* --------------------------- arun and the clock ------------------------ *)
\* lines 112-114: the time limit of a chunk passes while arun waits for
\* _process_chunk; the await is not wrapped in asyncio.wait_for, so nothing
\* else happens
TimeLimitPasses ==
    /\ wf_pc \in {"segment", "proofread", "translate"}
    /\ wf_timeout = 0
    /\ wf_timeout' = wf_i
    /\ UNCHANGED <<srt_file, wf_max_tokens, calls, wf_subtitles, wf_chunks,
                   wf_i, chunk_srt, segmented, segmented_content, proofread,
                   proofread_content, translated, translated_content,
                   processed_subtitles, events, output_file, written,
                   wf_error, wf_pc,
                   splitVars, coalesceVars, guardVars,
                   mergeVars, twiceVars>>

NextWorkflowTimed ==
    \/ ArunStart
    \/ ArunRead
    \/ ArunReadCancelled
    \/ ArunSplit
    \/ ChunkStart
    \/ Segment
    \/ Proofread
    \/ Translate
    \/ AgentRaises
    \/ ChunkParse
    \/ ArunWrite
    \/ TimeLimitPasses

SpecWorkflowTimed == InitWorkflow /\ [][NextWorkflowTimed]_vars

(* --------------------------- merge_subtitles --------------------------- *)
\* Subtitle.__lt__: a cue comes before another when it starts earlier or,
\* starting together, ends earlier
lt(a, b) == a.start < b.start \/ (a.start = b.start /\ a.end < b.end)

\* list.sort(): stable insertion of `s` after the cues of the sorted list
\* `lst` that it does not come before
RECURSIVE insert_sorted(_, _)
insert_sorted(lst, s) ==
    IF lst # <<>> /\ lt(s, lst[Len(lst)])
    THEN Append(insert_sorted(SubSeq(lst, 1, Len(lst) - 1), s), lst[Len(lst)])
    ELSE Append(lst, s)

\* mutant: the list is returned as it was put together, line 331 left out
list_unsorted(lst) == lst

\* line 331: all_subtitles.sort()
RECURSIVE list_sort(_)
list_sort(lst) ==
    IF lst = <<>> THEN <<>>
    ELSE insert_sorted(list_sort(SubSeq(lst, 1, Len(lst) - 1)), lst[Len(lst)])

\* lines 326-328: all_subtitles after `for block in subtitle_blocks`
RECURSIVE extend_all(_)
extend_all(blocks) ==
    IF blocks = <<>> THEN <<>>
    ELSE extend(extend_all(SubSeq(blocks, 1, Len(blocks) - 1)),
                blocks[Len(blocks)])

\* lines 309-333
merge_subtitles(blocks) ==
    IF blocks = <<>> THEN <<>>
    ELSE list_sort(extend_all(blocks))

\* the cue lists of length n: cue k is numbered k, start <= end
RECURSIVE MergeCueLists(_)
MergeCueLists(n) ==
    IF n = 0 THEN {<<>>}
    ELSE { Append(lst, [index |-> n, start |-> t[1], end |-> t[2],
                        content |-> <<"a">>, proprietary |-> <<>>]) :
             lst \in MergeCueLists(n - 1),
             t \in {u \in (0..MaxTime) \X (0..MaxTime) : u[1] <= u[2]} }

\* the ways to cut a list into consecutive blocks that are not empty
RECURSIVE Slicings(_)
Slicings(lst) ==
    IF lst = <<>> THEN {<<>>}
    ELSE UNION { { <<SubSeq(lst, 1, k)>> \o rest :
                     rest \in Slicings(SubSeq(lst, k + 1, Len(lst))) } :
                 k \in 1..Len(lst) }

\* the blocks given to merge_subtitles: the slices of a list, in order or
\* with the first block moved to the end, with or without an empty block
InitMerge ==
    /\ \E n \in 0..MaxCues : \E lst \in MergeCueLists(n) :
           \E blocks \in Slicings(lst) :
               subtitle_blocks \in
                   { blocks,
                     Append(blocks, <<>>),
                     IF blocks = <<>> THEN blocks
                     ELSE Append(Tail(blocks), Head(blocks)) }
    /\ all_subtitles = Unset
    /\ m_pc = "call"
    /\ SplitIdle
    /\ CoalesceIdle
    /\ GuardIdle
    /\ WorkflowIdle
    /\ TwiceIdle

\* merge_subtitles(subtitle_blocks) is called
MergeCall ==
    /\ m_pc = "call"
    /\ all_subtitles' = merge_subtitles(subtitle_blocks)
    /\ m_pc' = "returned"
    /\ UNCHANGED <<subtitle_blocks, splitVars, coalesceVars, guardVars,
                   workflowVars, twiceVars>>

NextMerge == MergeCall

SpecMerge == InitMerge /\ [][NextMerge]_vars


(* ------------------------- operators on results ------------------------ *)
\* the cues of the chunks, in output order
RECURSIVE Flatten(_)
Flatten(cs) == IF cs = <<>> THEN <<>> ELSE Head(cs) \o Flatten(Tail(cs))

\* token cost of the serialisation of a cue list
Cost(subs) == count_tokens(join_srt(subs))

\* the content's last character that is not white space is a sentence terminator
EndsInTerminator(content) ==
    \E k \in 1..Len(content) :
        /\ content[k] \in {".", "?", "!", "u3002", "uFF1F", "uFF01"}
        /\ \A m \in (k + 1)..Len(content) : content[m] \in {" ", "\n", "\t"}

\* split_subtitles has returned for a non-empty list and a positive budget
SplitReturned == pc = "done" /\ subtitles # <<>> /\ max_tokens > 0

\* the cues lo..hi of the input are a maximal run in which only the last cue
\* closes a sentence
SentenceRun(lo, hi) ==
    /\ lo <= hi
    /\ EndsInTerminator(subtitles[hi].content)
    /\ \A k \in lo..(hi - 1) : ~EndsInTerminator(subtitles[k].content)
    /\ lo > 1 => EndsInTerminator(subtitles[lo - 1].content)

(* ------------------------- claims: the chunker ------------------------- *)
\* C1: the concatenation of the returned chunks, in output order, equals the
\* input list: no cue dropped, none duplicated, order kept.
C1_Conservation ==
    (pc = "done" /\ max_tokens > 0) => Flatten(chunks) = subtitles

\* C2: every chunk holds exactly one cue or costs at most max_tokens.
C2_ChunkBudget ==
    \A k \in DOMAIN chunks :
        Len(chunks[k]) = 1 \/ Cost(chunks[k]) <= max_tokens

\* C2 witness: a run has returned a chunk of several cues that fills the
\* budget, a chunk over the budget, and took the over-budget split
C2_Witness ==
    /\ SplitReturned
    /\ \E k \in DOMAIN chunks :
           Len(chunks[k]) >= 2 /\ Cost(chunks[k]) = max_tokens
    /\ \E k \in DOMAIN chunks : Cost(chunks[k]) > max_tokens
    /\ \E k \in DOMAIN chunks : tags[k] = "degenerate"

C4_Oversize ==
    /\ [][ ( /\ pc = "loop" /\ subtitles # <<>> /\ max_tokens > 0
             /\ i <= Len(subtitles)
             /\ Cost(<<subtitles[i]>>) > max_tokens )
           => /\ chunks' = chunks
                    \o (IF current_chunk # <<>> THEN <<current_chunk>> ELSE <<>>)
                    \o (IF pending_subs # <<>> THEN <<pending_subs>> ELSE <<>>)
                    \o << <<subtitles[i]>> >>
              /\ current_chunk' = <<>>
              /\ pending_subs' = <<>> ]_vars
    /\ [](pc = "done" =>
            \A k \in 1..(i - 1) :
                Cost(<<subtitles[k]>>) > max_tokens
                    => \E c \in DOMAIN chunks : chunks[c] = <<subtitles[k]>>)

\* C4 witness: an oversize cue was emitted right after an open sentence,
\* itself right after a committed prefix
C4_Witness ==
    \E k \in DOMAIN chunks :
        /\ k >= 3
        /\ tags[k] = "oversize"
        /\ tags[k - 1] = "open"
        /\ tags[k - 2] = "committed"

\* C5: a maximal run of cues in which only the last closes a sentence, and
\* whose joint cost fits the budget, lies in one chunk.
C5_SentenceLocality ==
    SplitReturned =>
        \A lo \in DOMAIN subtitles : \A hi \in DOMAIN subtitles :
            (SentenceRun(lo, hi) /\ Cost(SubSeq(subtitles, lo, hi)) <= max_tokens)
                => \E c \in DOMAIN chunks :
                      \A k \in lo..hi :
                          \E m \in DOMAIN chunks[c] : chunks[c][m] = subtitles[k]

\* C5 witness: a run of two cues that fits, with a cue before it and a cue
\* after it, in an output of several chunks
C5_Witness ==
    /\ SplitReturned
    /\ Len(chunks) >= 2
    /\ \E lo \in DOMAIN subtitles :
           /\ lo > 1 /\ lo + 1 < Len(subtitles)
           /\ SentenceRun(lo, lo + 1)
           /\ Cost(SubSeq(subtitles, lo, lo + 1)) <= max_tokens
           /\ Cost(SubSeq(subtitles, lo - 1, lo + 1)) > max_tokens

\* C6: a non-empty list whose joint cost fits the budget comes back as one
\* chunk, the list itself.
C6_SingleChunk ==
    (SplitReturned /\ Cost(subtitles) <= max_tokens) => chunks = <<subtitles>>

\* C6 witness: a fitting list of several cues, some open, some closed, the
\* last one open
C6_Witness ==
    /\ SplitReturned
    /\ Cost(subtitles) <= max_tokens
    /\ Len(subtitles) >= 2
    /\ EndsInTerminator(subtitles[1].content)
    /\ ~EndsInTerminator(subtitles[Len(subtitles)].content)

\* scenario S3: one oversize cue, then two cues that each close a sentence and
\* each fit the budget
ScenarioS3 ==
    /\ SplitReturned
    /\ Len(subtitles) = 3
    /\ Cost(<<subtitles[1]>>) > max_tokens
    /\ \A k \in 2..3 : /\ Cost(<<subtitles[k]>>) <= max_tokens
                       /\ EndsInTerminator(subtitles[k].content)

\* C7 as stated: scenario S3 returns [oversize], [normal1], [normal2].
C7_Original ==
    ScenarioS3 =>
        chunks = << <<subtitles[1]>>, <<subtitles[2]>>, <<subtitles[3]>> >>

\* C7 amended: scenario S3 returns [oversize] and then the two normal cues,
\* in one chunk when their joint cost fits the budget, else in one chunk each.
C7_Amended ==
    ScenarioS3 =>
        chunks = IF Cost(<<subtitles[2], subtitles[3]>>) <= max_tokens
                 THEN << <<subtitles[1]>>, <<subtitles[2], subtitles[3]>> >>
                 ELSE << <<subtitles[1]>>, <<subtitles[2]>>, <<subtitles[3]>> >>

\* C7 witness: scenario S3 with the two normal cues fitting together
C7_Witness ==
    ScenarioS3 /\ Cost(<<subtitles[2], subtitles[3]>>) <= max_tokens

\* C8: every chunk is a non-empty contiguous slice of the input.
C8_ContiguousSlices ==
    \A k \in DOMAIN chunks :
        /\ chunks[k] # <<>>
        /\ \E lo \in DOMAIN subtitles :
               /\ lo + Len(chunks[k]) - 1 <= Len(subtitles)
               /\ chunks[k] = SubSeq(subtitles, lo, lo + Len(chunks[k]) - 1)

\* C8 witness: a run returned several chunks, one of them of several cues,
\* after going through the over-budget split
C8_Witness ==
    /\ SplitReturned
    /\ Len(chunks) >= 3
    /\ \E k \in DOMAIN chunks : Len(chunks[k]) >= 2
    /\ \E k \in DOMAIN chunks : tags[k] = "degenerate"

(* ------------------------ claims: the coalescer ------------------------ *)
\* the text without its leading and trailing white space
Trimmed(text) ==
    LET inked == {k \in DOMAIN text : text[k] \notin {" ", "\n", "\t"}}
    IN  IF inked = {} THEN <<>>
        ELSE SubSeq(text,
                    CHOOSE k \in inked : \A m \in inked : k <= m,
                    CHOOSE k \in inked : \A m \in inked : k >= m)

\* the loop of coalesce_subtitles is about to compare acc with the next cue
AtPair == co_pc = "loop" /\ j <= Len(sorted_subtitles)

\* the merge condition of the claim, for acc and the next cue n
ClaimedMerge(acc, n) ==
    LET trimmed == Trimmed(acc.content)
        ends_sentence ==
            /\ trimmed # <<>>
            /\ \E k \in DOMAIN punct_end : punct_end[k] = trimmed[Len(trimmed)]
        pause == IF n.start - acc.end > 0 THEN n.start - acc.end ELSE 0
        merged_duration ==
            (IF acc.end >= n.end THEN acc.end ELSE n.end) - acc.start
    IN  ~ends_sentence /\ pause <= max_pause /\ merged_duration <= max_dur

\* C9: acc and the next cue n are merged if and only if acc does not end in a
\* strict terminator, the pause (clamped at zero) is at most max_pause and
\* max(acc.end, n.end) - acc.start is at most max_duration.
C9_MergeCondition ==
    [][ AtPair =>
          ( (coalesced_subtitles' = coalesced_subtitles)
              <=> ClaimedMerge(current_subtitle, sorted_subtitles[j]) ) ]_vars

\* C10: a merge replaces acc by the cue (acc.start, max(acc.end, n.end),
\* trimmed acc content + space + trimmed n content, no index, acc's
\* proprietary) and emits nothing; otherwise acc is emitted unchanged and n
\* becomes acc.
C10_MergeEffect ==
    [][ AtPair =>
          LET acc == current_subtitle
              n   == sorted_subtitles[j]
          IN  \/ /\ coalesced_subtitles' = coalesced_subtitles
                 /\ current_subtitle' =
                        [index       |-> None,
                         start       |-> acc.start,
                         end         |-> IF acc.end >= n.end THEN acc.end ELSE n.end,
                         content     |-> Trimmed(acc.content) \o <<" ">>
                                             \o Trimmed(n.content),
                         proprietary |-> acc.proprietary]
              \/ /\ coalesced_subtitles' = Append(coalesced_subtitles, acc)
                 /\ current_subtitle' = n ]_vars

\* C10 witness: a merge of a cue with a cue that ends inside it, trimmed on
\* both sides, emitted before a cue that was kept apart
C10_Witness ==
    /\ co_pc = "done"
    /\ Len(coalesced_subtitles) = 2
    /\ coalesced_subtitles[1].index = None
    /\ coalesced_subtitles[1].content = <<"a", " ", "b", ",">>
    /\ coalesced_subtitles[1].proprietary = <<"X">>
    /\ Len(sorted_subtitles) = 3
    /\ sorted_subtitles[2].end < sorted_subtitles[1].end
    /\ coalesced_subtitles[1].end = sorted_subtitles[1].end
    /\ coalesced_subtitles[2] = sorted_subtitles[3]

\* coalesce_subtitles has returned
CoalesceReturned == co_pc = "done"

\* the list given to coalesce_subtitles is in ascending order of start
InputSorted ==
    \A k \in 1..(Len(co_subtitles) - 1) :
        co_subtitles[k].start <= co_subtitles[k + 1].start

\* the time covered by the cues of lst: point 2t stands for the instant t,
\* point 2t + 1 for the instants strictly between t and t + 1
Covered(lst) ==
    { p \in 0..(2 * MaxTime) :
        \E k \in DOMAIN lst : 2 * lst[k].start <= p /\ p <= 2 * lst[k].end }

\* C11: for every list, sorted or not, the result is in non-decreasing order
\* of start, has at most as many cues as the list, and at least one cue when
\* the list is not empty.
C11_SortedAndNoLonger ==
    CoalesceReturned =>
        /\ \A k \in 1..(Len(coalesced_subtitles) - 1) :
               coalesced_subtitles[k].start <= coalesced_subtitles[k + 1].start
        /\ Len(coalesced_subtitles) <= Len(co_subtitles)
        /\ co_subtitles # <<>> => Len(coalesced_subtitles) >= 1

\* C11 witness: a list given in strictly descending order of start came back
\* shorter, with several cues
C11_Witness ==
    /\ CoalesceReturned
    /\ Len(co_subtitles) = 3
    /\ \A k \in 1..2 : co_subtitles[k].start > co_subtitles[k + 1].start
    /\ Len(coalesced_subtitles) = 2

\* C12 as stated: for a sorted list the result covers exactly the time the
\* list covers.
C12_Original ==
    (CoalesceReturned /\ InputSorted)
        => Covered(coalesced_subtitles) = Covered(co_subtitles)

\* C12 amended: for a sorted list the result covers all the time the list
\* covers, and any other instant it covers lies strictly between the end of
\* an input cue and the start of an input cue at most max_pause later.
C12_Amended ==
    (CoalesceReturned /\ InputSorted)
        => /\ Covered(co_subtitles) \subseteq Covered(coalesced_subtitles)
           /\ \A p \in Covered(coalesced_subtitles) \ Covered(co_subtitles) :
                  \E a \in DOMAIN co_subtitles : \E b \in DOMAIN co_subtitles :
                      /\ 2 * co_subtitles[a].end < p
                      /\ p < 2 * co_subtitles[b].start
                      /\ co_subtitles[b].start - co_subtitles[a].end <= max_pause

\* C12 witness: a sorted list of which two cues were merged across a pause,
\* and a cue ending inside the cue before it was merged into it
C12_Witness ==
    /\ CoalesceReturned
    /\ InputSorted
    /\ Covered(coalesced_subtitles) # Covered(co_subtitles)
    /\ \E k \in 1..(Len(co_subtitles) - 1) :
           co_subtitles[k + 1].end < co_subtitles[k].end
    /\ Len(coalesced_subtitles) = 1

\* C13 as stated: for a sorted list no two cues of the result start at the
\* same time.
C13_Original ==
    (CoalesceReturned /\ InputSorted)
        => \A k \in 1..(Len(coalesced_subtitles) - 1) :
               coalesced_subtitles[k].start < coalesced_subtitles[k + 1].start

\* C13 amended: for a sorted list and max_pause >= 0 the result is in
\* non-decreasing order of start, and two consecutive cues of it start at the
\* same time only when the earlier one ends, trailing white space aside, in a
\* character of punct_end or the later one is longer than max_dur.
C13_Amended ==
    (CoalesceReturned /\ InputSorted /\ max_pause >= 0)
        => \A k \in 1..(Len(coalesced_subtitles) - 1) :
               LET a == coalesced_subtitles[k]
                   b == coalesced_subtitles[k + 1]
               IN  \/ a.start < b.start
                   \/ /\ a.start = b.start
                      /\ \/ /\ Trimmed(a.content) # <<>>
                            /\ \E m \in DOMAIN punct_end :
                                   punct_end[m] =
                                       Trimmed(a.content)[Len(Trimmed(a.content))]
                         \/ b.end - b.start > max_dur

\* C13 witness: a sorted list came back with two cues of the same start, the
\* earlier one the merge of two cues and ending in a comma
C13_Witness ==
    /\ CoalesceReturned
    /\ InputSorted
    /\ Len(coalesced_subtitles) = 2
    /\ coalesced_subtitles[1].start = coalesced_subtitles[2].start
    /\ coalesced_subtitles[1].index = None
    /\ coalesced_subtitles[2].end - coalesced_subtitles[2].start <= max_dur

\* C14: every cue of the result that was made by merging input cues lasts at
\* most max_dur.
C14_MaxDuration ==
    CoalesceReturned =>
        \A k \in DOMAIN coalesced_subtitles :
            coalesced_subtitles[k].index = None
                => coalesced_subtitles[k].end - coalesced_subtitles[k].start
                       <= max_dur

(* ------------------- claims: is_valid_srt_format ----------------------- *)
\* the three recoveries on a text: the direct parse, the parse from the
\* first cue header, the parse of the body of the first code block
StrictOk(text) == parse(text).raised = FALSE /\ parse(text).cues # <<>>

HeaderOk(text) ==
    /\ SRT_BLOCK_START_PATTERN_search(text) # NoMatch
    /\ StrictOk(SubSeq(text, SRT_BLOCK_START_PATTERN_search(text), Len(text)))

CodeBlockOk(text) ==
    /\ code_block_openers(text) # {}
    /\ StrictOk(CODE_BLOCK_PATTERN_group1(text))

\* C15: for every text, is_valid_srt_format returns a pair (is_valid,
\* error_msg); no exception leaves it, whatever the parser does at each of
\* the three parse attempts.
C15_GuardTotal ==
    g_pc \in {"returned", "raised"}
        => /\ g_pc = "returned"
           /\ g_result.raised = FALSE
           /\ g_result.is_valid \in BOOLEAN
           /\ g_result.is_valid <=> g_result.error_msg = ""

\* C15 witness: the call returned for a text in which a cue header is found
\* and the parse from that header raises
C15_Witness ==
    /\ g_pc = "returned"
    /\ parse(g_content).raised
    /\ SRT_BLOCK_START_PATTERN_search(g_content) # NoMatch
    /\ parse(SubSeq(g_content, SRT_BLOCK_START_PATTERN_search(g_content),
                    Len(g_content))).raised
    /\ ~g_result.is_valid

\* C16: is_valid_srt_format reports a text invalid only if the direct parse,
\* the parse from the first cue header and the parse of the body of the
\* first code block all fail; a text whose code block parses is reported
\* valid also when the parse from the first cue header raises.
C16_ThreeRecoveries ==
    (g_pc = "returned" /\ ~g_result.is_valid)
        => /\ ~StrictOk(g_content)
           /\ ~HeaderOk(g_content)
           /\ ~CodeBlockOk(g_content)

(* ---------------------- claims: _process_chunk ------------------------- *)
\* none of the three recoveries succeeds on the text
Unrecoverable(text) ==
    ~StrictOk(text) /\ ~HeaderOk(text) /\ ~CodeBlockOk(text)

\* C17: when the text an agent returned can neither be validated nor
\* recovered, the stage hands on exactly the text that was given to the
\* agent (chunk_srt for the Segmenter, the Segmenter stage's text for the
\* Proofreader, the Proofreader stage's text for the Translator), and the
\* chunk goes on to the next stage.
C17_StageFallback ==
    [][ /\ (wf_pc = "segment" /\ wf_error' # "agent error")
            => /\ wf_pc' = "proofread"
               /\ Unrecoverable(segmented') => segmented_content' = chunk_srt
        /\ (wf_pc = "proofread" /\ wf_error' # "agent error")
            => /\ wf_pc' = "translate"
               /\ Unrecoverable(proofread')
                      => proofread_content' = segmented_content
        /\ (wf_pc = "translate" /\ wf_error' # "agent error")
            => /\ wf_pc' = "parse"
               /\ Unrecoverable(translated')
                      => translated_content' = proofread_content ]_vars

\* C17 witness: the Segmenter's answer was recovered from a code block, the
\* Proofreader and the Translator answered with texts that cannot be
\* recovered, and _process_chunk returned the Segmenter stage's text
C17_Witness ==
    /\ wf_pc = "parse"
    /\ segmented = BrokenBeforeFence
    /\ segmented_content # chunk_srt
    /\ Unrecoverable(proofread) /\ proofread # <<>>
    /\ Unrecoverable(translated) /\ translated # proofread
    /\ translated_content = segmented_content

\* C18: the text handed to the Proofreader, the text handed to the
\* Translator and the text _process_chunk returns each parse strictly, with
\* at least one cue (chunk_srt does).
C18_CarriedTextParses ==
    /\ wf_pc \in {"segment", "proofread", "translate", "parse"}
           => StrictOk(chunk_srt)
    /\ wf_pc \in {"proofread", "translate", "parse"}
           => StrictOk(segmented_content)
    /\ wf_pc \in {"translate", "parse"} => StrictOk(proofread_content)
    /\ wf_pc = "parse" => StrictOk(translated_content)

(* --------------------------- claims: arun ------------------------------ *)
\* scenario S6 on a file of one chunk, the chunk parsed by arun: the
\* Segmenter answered with a text without SRT, the Proofreader echoed the
\* text given to it, the Translator answered with one cue in a code block
ScenarioS6 ==
    /\ wf_pc \in {"chunk", "returned", "raised"}
    /\ Len(wf_chunks) = 1
    /\ segmented = Sorry
    /\ proofread = segmented_content
    /\ translated = FencedCue

\* C19: in scenario S6 no parse error leaves arun and processed_subtitles
\* receives exactly the cue of the code block: content 你好 (u4F60 u597D),
\* from second 1 to second 2, without the fence.
C19_ScenarioS6 ==
    ScenarioS6
        => /\ wf_error # "SRTParseError"
           /\ Len(processed_subtitles) = 1
           /\ processed_subtitles[1].content = <<"u4F60", "u597D">>
           /\ processed_subtitles[1].start = 1
           /\ processed_subtitles[1].end = 2

\* C20: the response for the start of chunk i comes before the response for
\* its end, which comes before the response for the start of chunk i + 1;
\* the responses of the loop come after the one that reports the number of
\* chunks and before the one that reports the saving.
C20_EventOrder ==
    \A p \in DOMAIN events :
        LET e == events[p]
            Before(name, k) ==
                \E q \in 1..(p - 1) :
                    events[q].event = name /\ events[q].i = k
        IN  /\ e.event = "chunk_done" => Before("chunk_progress", e.i)
            /\ (e.event = "chunk_progress" /\ e.i > 1)
                   => Before("chunk_done", e.i - 1)
            /\ e.event \in {"chunk_progress", "chunk_done"}
                   => /\ e.i \in 1..e.n
                      /\ Before("split_done", 0)
                      /\ ~Before("writing", 0)
                      /\ ~Before(e.event, e.i)

\* C20 witness: a run over two chunks has reported the saving
C20_Witness ==
    /\ Len(wf_chunks) = 2
    /\ \E p \in DOMAIN events : events[p].event = "writing"
    /\ \E p \in DOMAIN events :
           events[p].event = "chunk_done" /\ events[p].i = 2

(* ------------------------ claims: arun, failures ----------------------- *)
\* the responses of a given kind among those yielded so far
EventsOfKind(kind) == {p \in DOMAIN events : RunEvent(events[p]) = kind}

\* the run has failed: an exception left arun (reading, an agent call,
\* parsing a chunk's result, saving), the chunker returned no chunk, or the
\* result of a chunk parsed to no cue
RunFailed ==
    \/ wf_pc = "raised"
    \/ /\ wf_pc = "returned"
       /\ events[Len(events)].event \in {"split_failed", "parse_failed"}

\* C21: a run that failed has yielded exactly one failure response, as its
\* last response, and no completion response.
C21_FailedEvent ==
    RunFailed
        => /\ events # <<>>
           /\ RunEvent(events[Len(events)]) = "workflow_failed"
           /\ Cardinality(EventsOfKind("workflow_failed")) = 1
           /\ EventsOfKind("workflow_completed") = {}

\* the chunks whose completion arun has reported
ChunksDone ==
    {events[p].i : p \in {q \in DOMAIN events : events[q].event = "chunk_done"}}

\* arun has begun to save: it yielded the response that announces it
SaveBegun == \E p \in DOMAIN events : events[p].event = "writing"

\* the run was cut short inside the loop or before it: an exception left
\* arun before the saving, or arun returned on an empty or missing result
CutShort ==
    \/ wf_error \in {"FileNotFoundError", "CancelledError", "SRTParseError",
                      "agent error"}
    \/ /\ wf_pc = "returned"
       /\ events[Len(events)].event \in
              {"read_failed", "split_failed", "compose_failed",
               "process_failed", "parse_failed"}

\* C22: the cues are saved at most once and only when every chunk has been
\* processed and parsed; a run cut short by an exception at the read or at
\* an agent call (a cancellation included) or by an empty or unparseable
\* result saves nothing and goes on to no later chunk.
C22_NoPartialOutput ==
    /\ Cardinality({p \in DOMAIN events : events[p].event = "writing"}) <= 1
    /\ (SaveBegun \/ written \/ output_file # Unset)
           => /\ ~CutShort
              /\ ChunksDone = 1..Len(wf_chunks)
              /\ Len(calls) = 3 * Len(wf_chunks)
              /\ Len(processed_subtitles) >= Len(wf_chunks)
    /\ CutShort
           => /\ ~written
              /\ output_file = Unset
              /\ ~SaveBegun
              /\ wf_pc \in {"returned", "raised"}
              /\ \A k \in ChunksDone : k < wf_i
              /\ \A p \in DOMAIN events : events[p].i <= wf_i
              /\ \A c \in DOMAIN calls : calls[c].chunk <= wf_i
    /\ \A c \in DOMAIN calls : \A k \in 1..(calls[c].chunk - 1) :
           k \in ChunksDone

\* C22 witness: of two chunks the first was processed and parsed, an agent
\* call of the second raised, and nothing was saved
C22_Witness ==
    /\ wf_pc = "raised"
    /\ wf_error = "agent error"
    /\ Len(wf_chunks) = 2
    /\ wf_i = 2
    /\ ChunksDone = {1}
    /\ processed_subtitles # <<>>
    /\ ~written

\* arun has read the file: it stands past line 76
PastRead == wf_pc \notin {"idle", "start", "read"}

\* C23: when the parse of the file returns no cue, and when it raises a
\* parse error, the run ends with a completion response: no cue, no chunk,
\* no agent call, nothing saved.
C23_ParsingStep ==
    (PastRead /\ srt_file.exists /\ wf_error # "CancelledError"
        /\ (parse(srt_file.text).raised \/ parse(srt_file.text).cues = <<>>))
        => /\ wf_pc = "returned"
           /\ wf_error = "none"
           /\ RunEvent(events[Len(events)]) = "workflow_completed"
           /\ wf_subtitles \in {Unset, <<>>}
           /\ wf_chunks = Unset
           /\ calls = <<>>
           /\ ~written

\* C24: once the time limit of a chunk has passed during its processing,
\* none of its cues enter processed_subtitles (its completion is never
\* reported), no later chunk is begun, the saving is not begun and nothing
\* is saved.
C24_ChunkTimeout ==
    wf_timeout # 0
        => /\ wf_timeout \notin ChunksDone
           /\ \A p \in DOMAIN events : events[p].i <= wf_timeout
           /\ wf_i <= wf_timeout
           /\ ~SaveBegun
           /\ ~written

(* ------------------------- claims: arun, output ------------------------ *)
\* cue k of the saved text is cue k of the list: same times, same content
\* (without blank lines), numbered k
SavedInOrder(text, lst) ==
    /\ parse(text).raised = FALSE
    /\ Len(parse(text).cues) = Len(lst)
    /\ \A k \in DOMAIN lst :
           /\ parse(text).cues[k].index = k
           /\ parse(text).cues[k].start = lst[k].start
           /\ parse(text).cues[k].end = lst[k].end
           /\ parse(text).cues[k].content = make_legal_content(lst[k].content)

CallsInOrder(k) ==
    [c \in 1..(3 * k) |->
        Call(<<"Segmenter", "Proofreader", "Translator">>[((c - 1) % 3) + 1],
             ((c - 1) \div 3) + 1)]

\* C29: the agent calls made so far are the first calls of the sequence
\* Segmenter, Proofreader, Translator of chunk 1, then of chunk 2, ...: each
\* agent is called once for a chunk, in this order, after the one before it
\* has returned, also after an output that was not valid; a chunk whose
\* completion is reported has had its three calls, and an agent is called
\* for a chunk only when the chunks before it have been parsed into
\* processed_subtitles and reported.
C29_CallOrder ==
    /\ calls = SubSeq(CallsInOrder((Len(calls) + 2) \div 3), 1, Len(calls))
    /\ \A k \in ChunksDone : Len(calls) >= 3 * k
    /\ \A c \in DOMAIN calls :
           \A k \in 1..(calls[c].chunk - 1) : k \in ChunksDone
    /\ wf_pc = "proofread" => Len(calls) = 3 * (wf_i - 1) + 1
    /\ wf_pc = "translate" => Len(calls) = 3 * (wf_i - 1) + 2
    /\ wf_pc = "parse" => Len(calls) = 3 * wf_i
    /\ wf_pc \in {"chunk", "segment"} => Len(calls) = 3 * (wf_i - 1)

\* C29 witness: the second chunk is with the Translator after the Segmenter
\* answered it with a text that is no SRT
C29_Witness ==
    /\ wf_pc = "translate"
    /\ wf_i = 2
    /\ segmented = Sorry
    /\ Len(calls) = 5
    /\ ChunksDone = {1}

(* ----------------------- claims: merge_subtitles ----------------------- *)
\* the two lists hold the same cues, each as many times
SameCues(a, b) ==
    /\ Len(a) = Len(b)
    /\ \A k \in DOMAIN a :
           Cardinality({m \in DOMAIN a : a[m] = a[k]})
               = Cardinality({m \in DOMAIN b : b[m] = a[k]})

\* no cue of the list comes before the one in front of it
TimeSorted(lst) ==
    \A k \in 1..(Len(lst) - 1) : ~lt(lst[k + 1], lst[k])

\* C26: merge_subtitles returns one list with exactly the cues of the
\* blocks, in order of time; blocks that are the consecutive slices of a
\* list in order of time give that list back; no blocks give the empty
\* list.
C26_MergeSubtitles ==
    m_pc = "returned"
        => /\ SameCues(all_subtitles, Flatten(subtitle_blocks))
           /\ TimeSorted(all_subtitles)
           /\ TimeSorted(Flatten(subtitle_blocks))
                  => all_subtitles = Flatten(subtitle_blocks)
           /\ subtitle_blocks = <<>> => all_subtitles = <<>>

\* C26 witness: three cues in two blocks that are not in order of time,
\* two of them with the same start, came back in order
C26_Witness ==
    /\ m_pc = "returned"
    /\ Len(subtitle_blocks) = 2
    /\ Len(all_subtitles) = 3
    /\ ~TimeSorted(Flatten(subtitle_blocks))
    /\ all_subtitles[1].start = all_subtitles[2].start
    /\ all_subtitles[1].index > all_subtitles[2].index

(* ------------------ claims: split_subtitles, emitted chunks ------------ *)
\* the step taken is the one of lines 249-286: the cue fits the budget
\* alone, but not together with current_chunk and pending_subs
OverflowStep ==
    /\ InLoop
    /\ ~(sub_tokens > max_tokens)
    /\ ~(all_tokens <= max_tokens)

\* C27: in the step that finds the budget exceeded, current_chunk is
\* emitted as it stands and gains no cue afterwards (it is reset before
\* pending_subs is handled, in the degenerate split too); the chunks
\* emitted before stay as they are and no cue is emitted in two chunks.
C27_EmittedOnce ==
    [][ /\ \A k \in DOMAIN chunks :
               k \in DOMAIN chunks' /\ chunks'[k] = chunks[k]
        /\ (OverflowStep /\ current_chunk # <<>>)
               => /\ Len(chunks') > Len(chunks)
                  /\ chunks'[Len(chunks) + 1] = current_chunk
        /\ \A c, d \in DOMAIN chunks' :
               c # d => \A m \in DOMAIN chunks'[c] : \A n \in DOMAIN chunks'[d] :
                           chunks'[c][m] # chunks'[d][n] ]_vars

\* C28: split_subtitles drops no cue: when it has returned, every cue of
\* the list is in some chunk, and it returns no chunk only for an empty
\* list or max_tokens <= 0.
C28_NoCueDropped ==
    pc = "done"
        => /\ max_tokens > 0
                  => \A k \in DOMAIN subtitles :
                         \E c \in DOMAIN chunks : \E m \in DOMAIN chunks[c] :
                             chunks[c][m] = subtitles[k]
           /\ chunks = <<>> <=> (subtitles = <<>> \/ max_tokens <= 0)

\* C28 witness: three cues came back in chunks of which one was emitted for
\* a cue that alone exceeds max_tokens and one by the degenerate split
C28_Witness ==
    /\ SplitReturned
    /\ Len(subtitles) >= 3
    /\ \E c \in DOMAIN tags : tags[c] = "oversize"
    /\ \E c \in DOMAIN tags : tags[c] = "degenerate"

\* the list the loop of coalesce_subtitles built is the one the function
\* coalesce_subtitles computes
CoalesceAgrees ==
    CoalesceReturned
        => coalesced_subtitles
               = coalesce_subtitles(co_subtitles, max_pause, punct_end, max_dur)

\* the cues of a and of b have the same start, end and content
SameTimedText(a, b) ==
    /\ Len(a) = Len(b)
    /\ \A k \in DOMAIN a :
           /\ a[k].start = b[k].start
           /\ a[k].end = b[k].end
           /\ a[k].content = b[k].content

\* C30: coalesce_subtitles is idempotent: a second call with the same
\* max_pause, punct_end and max_dur returns cues with the same start, end
\* and content as the first, so it merges nothing the first kept apart.
C30_Idempotent ==
    tw_pc = "returned" => SameTimedText(tw_twice, tw_once)

\* C30 witness: the first call merged two cues and kept two cues apart that
\* are within max_pause of each other and do not end a sentence, and the
\* second call has returned
C30_Witness ==
    /\ tw_pc = "returned"
    /\ Len(tw_once) >= 2
    /\ Len(tw_once) < Len(tw_subtitles)
    /\ \E k \in 1..(Len(tw_once) - 1) :
           /\ ~ends_with_sentence_punct(tw_once[k], tw_punct_end)
           /\ pause_duration(tw_once[k], tw_once[k + 1]) <= tw_max_pause

====
